---------------------------- MODULE Spec2Model ----------------------------
(***************************************************************************)
(* A model of the programs of the repository:                              *)
(*                                                                         *)
(*   SpecPub   publisher_v2.py (main loop, observer thread) together with  *)
(*             headline_aggregator.py and usage_tracker.py                 *)
(*   SpecFly   FLYBOTY.py (poll loop, flylines.csv, restart priming)       *)
(*   SpecNews  Newsfeeder.py / 'WSBSENTIMENT CHECK.py' (diff-based watcher)*)
(*   SpecTail  publisher_v2.MultiCSVHandler (tailing the watched CSV file) *)
(*   SpecBox   Newsfeeder.py reading a GroupBox control                    *)
(*   SpecAgg   a HeadlineAggregator object used from one thread            *)
(*   SpecUsage a UsageTracker object used from one thread                  *)
(*   SpecMt    discord_mt.py (the MetaTrader5 commands of the bot)         *)
(*   SpecAsm   Newsfeeder.assemble_news_from_statics                       *)
(*   SpecEnv   rl_trading.py (TradingEnv and the simulation loop)          *)
(*                                                                         *)
(* Every specification leaves the variables of the other programs alone.   *)
(* Strings of the programs are sequences of one-character strings, so that *)
(* formatting and parsing are computed and not assumed.                    *)
(***************************************************************************)
EXTENDS Integers, Sequences, FiniteSets, TLC

VARIABLES
    \* ---- the clock (time.time(), whole seconds)
    now,
    \* ---- usage_tracker.UsageTracker, the object publisher_v2.twitter_usage
    usage_file,        \* tweet_usage.json: [state, data]
    attempts,          \* self.attempts, a deque of timestamps
    last_can_post,     \* the last can_post() call: time, ledger before, result
    \* ---- headline_aggregator.HeadlineAggregator, publisher_v2.aggregator
    buffer,            \* self.buffer
    last_line_time,    \* self.last_line_time
    \* ---- publisher_v2.main (main thread) and the watchdog observer thread
    pcMain,            \* position of the main thread
    wake,              \* the time the current time.sleep(1) ends
    combined_message,  \* the local of main / of flush() holding the joined text
    pcObs,             \* position of the observer thread inside add_line
    obs_now,           \* add_line's local `now`
    nAdded,            \* number of add_line calls so far (names the lines)
    oldest_add,        \* the time of the add_line call of the oldest buffered line
    flushed,           \* the payloads flush() returned, in order
    vetoed,            \* the flushes skipped by the limiter: time and payload
    \* ---- the Twitter API: every post_to_twitter call, by whom
    twitter,
    \* ---- FLYBOTY.main
    pcFly,             \* "start", "poll" or "exited"
    seen_headlines,    \* the set seen_headlines
    flylines,          \* the characters of flylines.csv
    printed,           \* the "New headline ->" lines printed, in order
    written,           \* the rows writer.writerow accepted, in order
    run,               \* number of the process run (1 = first)
    cycle,             \* number of the poll cycle
    reattach_due,      \* a poll raised and attach_to_fly_tab was not called since
    snapshot,          \* the list `headlines` of the last pass that parsed one
    pass_ended,        \* that pass ran to its end (the sleep of line 183)
    \* ---- Newsfeeder.py and 'WSBSENTIMENT CHECK.py': monitor_fiatfeed_window
    feed,              \* the lines the FIATFEED window shows
    pcNews,            \* per watcher: its place in main / the monitor loop
    last_text,         \* per watcher: the local last_text
    news_csv,          \* the rows appended to fiatfeed_news.csv
    \* ---- publisher_v2.MultiCSVHandler, for one watched file
    csv_data,          \* the characters of the watched file
    file_offsets,      \* self.file_offsets[file_name]
    posted_lines,      \* self.posted_lines[file_name]
    pcTail,            \* position inside process_new_lines
    new_offset,        \* process_new_lines' local new_offset
    current_offset,    \* process_new_lines' local current_offset
    discord,           \* the post_to_discord calls that returned (their lines)
    added_lines,       \* the aggregator.add_line calls of the handler
    read_end,          \* the place in the file where the last f.read() ended
    observed,          \* the size getsize gave the last call that returned
    appended,          \* the cleaned non-blank lines appended to the file
    \* ---- a HeadlineAggregator object used from one thread
    agg,               \* its fields: flush_interval, buffer, last_line_time
    agg_now,           \* the clock of that thread
    agg_log,           \* the calls made on the object, with what they returned
    \* ---- Newsfeeder.monitor_fiatfeed_window with approach == "groupbox"
    raw_text,          \* get_news_from_groupbox's local raw_text, last read
    polled_text,       \* the loop's local current_text, last read
    shown,             \* the lines the control's text held at earlier reads
    \* ---- a UsageTracker object used from one thread, and its usage file
    ut_attempts,       \* self.attempts
    ut_file,           \* the usage file: [state, data]
    ut_now,            \* the clock of that thread
    ut_log,            \* the calls made on the object, with what they did
    \* ---- discord_mt.py: the command handlers and the MetaTrader5 connection
    mt5_initialized,   \* the terminal connection is initialized
    sending,           \* the handlers suspended at `await ctx.send(...)`
    mt5_log,           \* the MetaTrader5 calls made: command, function, state
    invoked,           \* number of commands invoked so far
    \* ---- Newsfeeder.assemble_news_from_statics called on a window
    controls,          \* window.descendants(): class and text of each control
    assembled,         \* assembled_lines, with the places of the two controls
    pcAsm,             \* "ready" before the call, "done" after it
    \* ---- rl_trading.main: the TradingEnv object and the loop of Step 5
    df_len,            \* len(self.df)
    current_step,      \* self.current_step
    done,              \* what the last step() returned as done
    actions,           \* the list `actions` of Step 5
    pcRl               \* "train", "loop", "saved" or "raised"

pubVars == <<now, usage_file, attempts, last_can_post, buffer, last_line_time,
             pcMain, wake, combined_message, pcObs, obs_now, nAdded, oldest_add,
             flushed, vetoed>>
flyVars == <<pcFly, seen_headlines, flylines, printed, written, run, cycle,
             reattach_due, snapshot, pass_ended>>
newsVars == <<feed, pcNews, last_text, news_csv>>
tailVars == <<csv_data, file_offsets, posted_lines, pcTail, new_offset,
              current_offset, discord, added_lines, read_end, observed,
              appended>>
aggVars == <<agg, agg_now, agg_log>>
boxVars == <<raw_text, polled_text, shown>>
utVars == <<ut_attempts, ut_file, ut_now, ut_log>>
mtVars == <<mt5_initialized, sending, mt5_log, invoked>>
asmVars == <<controls, assembled, pcAsm>>
envVars == <<df_len, current_step, done, actions, pcRl>>
miscVars == <<mtVars, asmVars, envVars>>

vars == <<pubVars, twitter, flyVars, newsVars, tailVars, aggVars, boxVars,
          utVars, miscVars>>

(***************************************************************************)
(* Bounds of the model.                                                    *)
(***************************************************************************)
MaxTime == 6      \* the clock stops here
MaxAdds == 3      \* add_line calls in one run

(***************************************************************************)
(* Configuration of publisher_v2 (lines 27-34), scaled to the clock of the *)
(* model: 100 attempts per 24 h and a quiet period of 5 s in the source.   *)
(***************************************************************************)
max_attempts == 2
time_window == 4
flush_interval == 1

Range(s) == {s[i] : i \in 1..Len(s)}

\* The variables of a program that a specification does not run.
IdlePub ==
    /\ now = 0
    /\ usage_file = [state |-> "missing", data |-> <<>>]
    /\ attempts = <<>>
    /\ last_can_post = [called |-> FALSE, t |-> 0, before |-> <<>>,
                        after |-> <<>>, result |-> FALSE]
    /\ buffer = <<>>
    /\ last_line_time = 0
    /\ pcMain = "off"
    /\ wake = 0
    /\ combined_message = <<>>
    /\ pcObs = "off"
    /\ obs_now = 0
    /\ nAdded = 0
    /\ oldest_add = 0
    /\ flushed = <<>>
    /\ vetoed = <<>>

IdleFly ==
    /\ pcFly = "off"
    /\ seen_headlines = {}
    /\ flylines = <<>>
    /\ printed = <<>>
    /\ written = <<>>
    /\ run = 0
    /\ cycle = 0
    /\ reattach_due = FALSE
    /\ snapshot = <<>>
    /\ pass_ended = FALSE

IdleNews ==
    /\ feed = <<>>
    /\ pcNews = <<>>
    /\ last_text = <<>>
    /\ news_csv = <<>>

IdleTail ==
    /\ csv_data = <<>>
    /\ file_offsets = 0
    /\ posted_lines = {}
    /\ pcTail = "off"
    /\ new_offset = 0
    /\ current_offset = 0
    /\ discord = <<>>
    /\ added_lines = <<>>
    /\ read_end = 0
    /\ observed = 0 - 1
    /\ appended = {}

IdleAgg ==
    /\ agg = [flush_interval |-> 0, buffer |-> <<>>, last_line_time |-> 0]
    /\ agg_now = 0
    /\ agg_log = <<>>

IdleBox ==
    /\ raw_text = <<>>
    /\ polled_text = <<>>
    /\ shown = {}

IdleUsage ==
    /\ ut_attempts = <<>>
    /\ ut_file = [state |-> "missing", data |-> <<>>]
    /\ ut_now = 0
    /\ ut_log = <<>>

IdleMt ==
    /\ mt5_initialized = FALSE
    /\ sending = 0
    /\ mt5_log = <<>>
    /\ invoked = 0

IdleAsm ==
    /\ controls = <<>>
    /\ assembled = <<>>
    /\ pcAsm = "off"

IdleEnv ==
    /\ df_len = 0
    /\ current_step = 0
    /\ done = FALSE
    /\ actions = <<>>
    /\ pcRl = "off"

IdleMisc == IdleMt /\ IdleAsm /\ IdleEnv

---------------------------------------------------------------------------
(***************************************************************************)
(* usage_tracker.py                                                        *)
(***************************************************************************)

\* prune() with `if` in place of `while`: at most one entry is removed.
PruneOnce(att, t, window) ==
    IF att # <<>> /\ (t - Head(att)) > window THEN Tail(att) ELSE att

\* prune(): pop from the front while the front is older than the window.
RECURSIVE Prune(_, _, _)
Prune(att, t, window) ==
    IF att # <<>> /\ (t - Head(att)) > window
    THEN Prune(Tail(att), t, window)
    ELSE att

\* can_post() with `<=` in place of `<`.
CanPostOffByOne(att, t, max, window) == Len(Prune(att, t, window)) <= max

\* can_post() deciding on the ledger as it was before prune().
CanPostUnpruned(att, t, max, window) == Len(att) < max

\* can_post(): the decision taken on the pruned ledger.
CanPost(att, t, max, window) == Len(Prune(att, t, window)) < max

\* record_post(): append the current time.
RecordPost(att, t) == Append(att, t)

\* save_usage() writing the newest timestamp only.
SaveUsageLastOnly(att) ==
    [state |-> "valid",
     data |-> IF att = <<>> THEN <<>> ELSE <<att[Len(att)]>>]

\* save_usage(): the file holds the whole ledger.
SaveUsage(att) == [state |-> "valid", data |-> att]

\* load_usage(): a missing file gives an empty ledger, a valid one its list;
\* json.load raises on anything else and nothing catches it.
LoadUsage(file) ==
    CASE file.state = "missing" -> [raised |-> FALSE, attempts |-> <<>>]
      [] file.state = "valid"   -> [raised |-> FALSE, attempts |-> file.data]
      [] OTHER                  -> [raised |-> TRUE,  attempts |-> <<>>]

\* __init__ at time t: load_usage(), then prune().
NewTracker(file, t) ==
    LET r == LoadUsage(file)
    IN [raised |-> r.raised, attempts |-> Prune(r.attempts, t, time_window)]

---------------------------------------------------------------------------
(***************************************************************************)
(* headline_aggregator.py                                                  *)
(***************************************************************************)

\* should_flush() with `>=` in place of `>`.
ShouldFlushAtInterval(buf, last, t, interval) ==
    IF buf = <<>> THEN FALSE ELSE (t - last) >= interval

\* should_flush() waiting one second longer.
ShouldFlushLate(buf, last, t, interval) ==
    IF buf = <<>> THEN FALSE ELSE (t - last) > interval + 1

\* should_flush()
ShouldFlush(buf, last, t, interval) ==
    IF buf = <<>> THEN FALSE ELSE (t - last) > interval

---------------------------------------------------------------------------
(***************************************************************************)
(* publisher_v2.py: the module body, main() and the observer thread.       *)
(***************************************************************************)

\* Ledgers an earlier run can have left in tweet_usage.json: every entry was
\* appended at the clock of its record_post, so the list is in time order.
PriorTimes == {0 - (time_window + 1), 0 - 1}
PriorLedgers ==
    {s \in UNION {[1..n -> PriorTimes] : n \in 0..max_attempts} :
        \A i \in 1..(Len(s) - 1) : s[i] <= s[i + 1]}

UsageFiles ==
    {[state |-> "missing", data |-> <<>>], [state |-> "corrupt", data |-> <<>>]}
    \cup {SaveUsage(s) : s \in PriorLedgers}

\* The post_to_twitter calls of the earlier run that wrote the ledger.
PriorTweets(file) ==
    [i \in 1..Len(file.data) |->
        [by |-> "publisher_v2.py", text |-> <<>>, t |-> file.data[i],
         recorded |-> TRUE, result |-> "201"]]

InitPub ==
    /\ now = 0
    /\ usage_file \in UsageFiles
    /\ attempts = <<>>
    /\ last_can_post = [called |-> FALSE, t |-> 0, before |-> <<>>,
                        after |-> <<>>, result |-> FALSE]
    /\ buffer = <<>>
    /\ last_line_time = 0
    /\ pcMain = "import"
    /\ wake = 0
    /\ combined_message = <<>>
    /\ pcObs = "idle"
    /\ obs_now = 0
    /\ nAdded = 0
    /\ oldest_add = 0
    /\ flushed = <<>>
    /\ vetoed = <<>>
    /\ twitter = PriorTweets(usage_file)
    /\ IdleFly /\ IdleNews /\ IdleTail /\ IdleAgg /\ IdleBox /\ IdleUsage /\ IdleMisc

\* main() is inside its loop: the module was imported and no exception
\* has left main().  The observer is a daemon thread and ends with it.
MainAlive == pcMain \in {"loop", "flush_join", "flush_clear", "post"}

Tick ==
    /\ UNCHANGED <<flyVars, newsVars, tailVars, aggVars, boxVars, utVars, miscVars>>
    /\ now < MaxTime
    /\ now' = now + 1
    /\ UNCHANGED <<usage_file, attempts, last_can_post, buffer, last_line_time,
                   pcMain, wake, combined_message, pcObs, obs_now, nAdded, oldest_add,
                   flushed, vetoed, twitter>>

\* publisher_v2.py:27-34: twitter_usage = UsageTracker(...) runs load_usage()
\* and prune(); an exception of load_usage ends the import.
Import ==
    /\ UNCHANGED <<flyVars, newsVars, tailVars, aggVars, boxVars, utVars, miscVars>>
    /\ pcMain = "import"
    /\ LET r == LoadUsage(usage_file) IN
        IF r.raised
        THEN /\ pcMain' = "crashed"
             /\ UNCHANGED attempts
        ELSE /\ pcMain' = "loop"
             /\ attempts' = Prune(r.attempts, now, time_window)
    /\ wake' = now + 1
    /\ UNCHANGED <<now, usage_file, last_can_post, buffer, last_line_time,
                   combined_message, pcObs, obs_now, nAdded, oldest_add, flushed, vetoed,
                   twitter>>

\* main(): time.sleep(1) has ended and aggregator.should_flush() is evaluated.
MainShouldFlush ==
    /\ UNCHANGED <<flyVars, newsVars, tailVars, aggVars, boxVars, utVars, miscVars>>
    /\ pcMain = "loop"
    /\ now >= wake
    /\ IF ShouldFlush(buffer, last_line_time, now, flush_interval)
       THEN pcMain' = "flush_join" /\ UNCHANGED wake
       ELSE pcMain' = "loop" /\ wake' = now + 1
    /\ UNCHANGED <<now, usage_file, attempts, last_can_post, buffer,
                   last_line_time, combined_message, pcObs, obs_now, nAdded, oldest_add,
                   flushed, vetoed, twitter>>

\* flush(), first statement: combined = "\n".join(self.buffer)
MainFlushJoin ==
    /\ UNCHANGED <<flyVars, newsVars, tailVars, aggVars, boxVars, utVars, miscVars>>
    /\ pcMain = "flush_join"
    /\ combined_message' = buffer
    /\ pcMain' = "flush_clear"
    /\ UNCHANGED <<now, usage_file, attempts, last_can_post, buffer,
                   last_line_time, wake, pcObs, obs_now, nAdded, oldest_add, flushed,
                   vetoed, twitter>>

\* flush() returning combined without self.buffer.clear().
MainFlushNoClear ==
    /\ UNCHANGED <<flyVars, newsVars, tailVars, aggVars, boxVars, utVars, miscVars>>
    /\ pcMain = "flush_clear"
    /\ flushed' = Append(flushed, combined_message)
    /\ pcMain' = "post"
    /\ UNCHANGED <<now, usage_file, attempts, last_can_post, buffer,
                   last_line_time, wake, combined_message, pcObs, obs_now,
                   nAdded, oldest_add, vetoed, twitter>>

\* flush(), second statement: self.buffer.clear(); return combined
MainFlushClear ==
    /\ UNCHANGED <<flyVars, newsVars, tailVars, aggVars, boxVars, utVars, miscVars>>
    /\ pcMain = "flush_clear"
    /\ buffer' = <<>>
    /\ oldest_add' = 0
    /\ flushed' = Append(flushed, combined_message)
    /\ pcMain' = "post"
    /\ UNCHANGED <<now, usage_file, attempts, last_can_post, last_line_time,
                   wake, combined_message, pcObs, obs_now, nAdded, vetoed,
                   twitter>>

\* What one post_to_twitter call can do: return the tweet id (status 201),
\* print the failure and return None (any other status), or raise
\* (requests.post raises when there is no connection).
PostOutcomes == {"201", "error", "raised"}

\* main(), lines 183-190: can_post(), then record_post() and post_to_twitter,
\* or the SKIPPED message.  record_post() ends with save_usage(); when open
\* raises the file is as it was, when json.dump raises it was truncated
\* before.  main() has no handler for an exception of either call.
MainPost ==
    /\ UNCHANGED <<flyVars, newsVars, tailVars, aggVars, boxVars, utVars, miscVars>>
    /\ pcMain = "post"
    /\ LET pruned == Prune(attempts, now, time_window)
           ok == CanPost(attempts, now, max_attempts, time_window)
       IN /\ last_can_post' = [called |-> TRUE, t |-> now, before |-> attempts,
                               after |-> pruned, result |-> ok]
          /\ IF ok
             THEN /\ attempts' = RecordPost(pruned, now)
                  /\ UNCHANGED vetoed
                  /\ \/ \E outcome \in PostOutcomes :
                          /\ usage_file' = SaveUsage(attempts')
                          /\ twitter' = Append(twitter,
                                [by |-> "publisher_v2.py",
                                 text |-> combined_message, t |-> now,
                                 recorded |-> TRUE, result |-> outcome])
                          /\ pcMain' = IF outcome = "raised"
                                       THEN "post_raised" ELSE "loop"
                     \/ /\ usage_file' \in
                             {usage_file, [state |-> "corrupt", data |-> <<>>]}
                        /\ pcMain' = "save_raised"
                        /\ UNCHANGED twitter
             ELSE /\ attempts' = pruned
                  /\ vetoed' = Append(vetoed,
                        [t |-> now, text |-> combined_message])
                  /\ pcMain' = "loop"
                  /\ UNCHANGED <<usage_file, twitter>>
    /\ wake' = now + 1
    /\ UNCHANGED <<now, buffer, last_line_time, combined_message, pcObs,
                   obs_now, nAdded, oldest_add, flushed>>

\* add_line(), called on the observer thread: now = time.time();
\* self.buffer.append(line)
ObsAddAppend ==
    /\ UNCHANGED <<flyVars, newsVars, tailVars, aggVars, boxVars, utVars, miscVars>>
    /\ pcObs = "idle"
    /\ MainAlive
    /\ nAdded < MaxAdds
    /\ nAdded' = nAdded + 1
    /\ oldest_add' = IF buffer = <<>> THEN now ELSE oldest_add
    /\ buffer' = Append(buffer, nAdded + 1)
    /\ obs_now' = now
    /\ pcObs' = "set_time"
    /\ UNCHANGED <<now, usage_file, attempts, last_can_post, last_line_time,
                   pcMain, wake, combined_message, flushed, vetoed, twitter>>

\* add_line(), last statement: self.last_line_time = now
ObsAddSetTime ==
    /\ UNCHANGED <<flyVars, newsVars, tailVars, aggVars, boxVars, utVars, miscVars>>
    /\ pcObs = "set_time"
    /\ MainAlive
    /\ last_line_time' = obs_now
    /\ pcObs' = "idle"
    /\ UNCHANGED <<now, usage_file, attempts, last_can_post, buffer, pcMain,
                   wake, combined_message, obs_now, nAdded, oldest_add, flushed, vetoed,
                   twitter>>

NextPub ==
    \/ Tick
    \/ Import
    \/ MainShouldFlush
    \/ MainFlushJoin
    \/ MainFlushClear
    \/ MainPost
    \/ ObsAddAppend
    \/ ObsAddSetTime

SpecPub == InitPub /\ [][NextPub]_vars

\* The clock when the calls take no time and time.sleep(1) lasts exactly
\* one second: it advances only while both threads are between calls and
\* the sleep of main() has not ended.
TickTimed ==
    /\ pcObs = "idle"
    /\ pcMain \in {"loop", "crashed", "post_raised", "save_raised"}
    /\ pcMain = "loop" => now < wake
    /\ Tick

NextPubTimed ==
    \/ TickTimed
    \/ Import
    \/ MainShouldFlush
    \/ MainFlushJoin
    \/ MainFlushClear
    \/ MainPost
    \/ ObsAddAppend
    \/ ObsAddSetTime

SpecPubTimed == InitPub /\ [][NextPubTimed]_vars

---------------------------------------------------------------------------
(***************************************************************************)
(* Claims checked under SpecPub.                                           *)
(***************************************************************************)

\* The number of flush() payloads that hold line `id`.
Occurrences(id) ==
    Cardinality({i \in 1..Len(flushed) : id \in Range(flushed[i])})

\* C2: every line passed to add_line is contained in exactly one flush()
\* payload, for every interleaving of the observer thread and the main
\* thread: at any moment a line is either still buffered or was returned by
\* exactly one flush(), never lost and never returned twice.
C2_FlushAtomic ==
    \A id \in 1..nAdded :
        Occurrences(id) + (IF id \in Range(buffer) THEN 1 ELSE 0) = 1

\* The post_to_twitter calls of publisher_v2.main made at a time in lo..hi.
TweetsIn(lo, hi) ==
    Cardinality({i \in 1..Len(twitter) :
        /\ twitter[i].by = "publisher_v2.py"
        /\ twitter[i].t >= lo
        /\ twitter[i].t <= hi})

\* C3: for every time t the number of post_to_twitter calls of
\* publisher_v2.main in [t - time_window, t] is at most max_attempts, and a
\* flush is vetoed exactly when the window ending at it is full.
C3_RollingQuota ==
    /\ \A t \in (0 - (time_window + 1))..now :
          TweetsIn(t - time_window, t) <= max_attempts
    /\ \A k \in 1..Len(vetoed) :
          TweetsIn(vetoed[k].t - time_window, vetoed[k].t) >= max_attempts

\* A flush was vetoed and a later one, after an attempt aged out, was posted.
C3_Witness ==
    \E k \in 1..Len(vetoed), i \in 1..Len(twitter) : twitter[i].t > vetoed[k].t

C5_FailOpenLoad ==
    (pcMain # "import" /\ usage_file.state \in {"missing", "corrupt"}) =>
        /\ pcMain # "crashed"
        /\ attempts = <<>>
        /\ CanPost(attempts, now, max_attempts, time_window)

\* C13: every line added to the buffer is flushed within flush_interval plus
\* one tick of the main loop after it was added, whatever lines arrive
\* after it: no line stays in the buffer longer than that.
C13_BoundedFlushLatency ==
    buffer # <<>> => now - oldest_add <= flush_interval + 1

\* C13 with the bound counted from the most recent add_line call: while
\* main() runs, the buffer does not stay non-empty for longer than
\* flush_interval plus one tick after the latest add_line call.
C13_FlushedAfterLastAdd ==
    (MainAlive /\ buffer # <<>>) => now - obs_now <= flush_interval + 1

\* A flush() takes out a line that waited longer than flush_interval plus
\* one tick, because a later line arrived within the quiet period.
C13_Witness ==
    /\ pcMain = "flush_clear"
    /\ Len(buffer) >= 2
    /\ now - oldest_add > flush_interval + 1
    /\ now - obs_now <= flush_interval + 1

\* C14: main() starts a flush only when more than flush_interval passed
\* since the most recent add_line call; while lines keep arriving with gaps
\* of at most flush_interval, should_flush() stays false.
C14_DebouncePostponement ==
    [][(pcMain = "loop" /\ pcMain' = "flush_join")
          => (nAdded > 0 /\ now - obs_now > flush_interval)]_vars

\* C18: a publish that fails, by an error status or by an exception, leaves
\* the loop of main() running.
C18_PublishFailureNonFatal ==
    \A i \in 1..Len(twitter) :
        (twitter[i].by = "publisher_v2.py" /\ twitter[i].result # "201"
            /\ twitter[i].t >= 0)
           => MainAlive

\* C30: a flush made while can_post() is false takes its lines out of the
\* buffer, records no ledger entry and makes no post_to_twitter call, and
\* the lines of its payload are in no later payload passed to
\* post_to_twitter and never in the buffer again.
C30_VetoedBatchDropped ==
    [][/\ Len(vetoed') > Len(vetoed) =>
             /\ vetoed'[Len(vetoed')].text = combined_message
             /\ combined_message # <<>>
             /\ Len(attempts') <= Len(attempts)
             /\ usage_file' = usage_file
             /\ twitter' = twitter
       /\ \A k \in 1..Len(vetoed') :
             /\ Range(vetoed'[k].text) \cap Range(buffer') = {}
             /\ \A i \in 1..Len(twitter') :
                   Range(vetoed'[k].text) \cap Range(twitter'[i].text) = {}]_vars

\* A batch was dropped by the limiter and a later batch was posted.
C30_Witness ==
    \E k \in 1..Len(vetoed), i \in 1..Len(twitter) :
        /\ vetoed[k].text # <<>>
        /\ twitter[i].text # <<>>
        /\ twitter[i].t > vetoed[k].t
        /\ twitter[i].by = "publisher_v2.py"

---------------------------------------------------------------------------
(***************************************************************************)
(* Characters.  A string of a program is a sequence of these.              *)
(***************************************************************************)
COMMA == ","
QUOTE == "dquote"          \* the character "
CR    == "CR"              \* carriage return
LF    == "LF"              \* line feed
STAMP == "T"               \* the text of one datetime.now().isoformat()

RECURSIVE Concat(_)
Concat(ss) == IF ss = <<>> THEN <<>> ELSE Head(ss) \o Concat(Tail(ss))

---------------------------------------------------------------------------
(***************************************************************************)
(* The csv module as FLYBOTY uses it: csv.writer on a file opened with     *)
(* newline="" (excel dialect, QUOTE_MINIMAL, rows end with CR LF) and      *)
(* csv.reader on a file opened in text mode with the default newline,      *)
(* which turns CR LF and a lone CR into LF before the reader sees them.    *)
(***************************************************************************)
CsvSpecial == {COMMA, QUOTE, CR, LF}

RECURSIVE DoubleQuotes(_)
DoubleQuotes(f) ==
    IF f = <<>> THEN <<>>
    ELSE (IF Head(f) = QUOTE THEN <<QUOTE, QUOTE>> ELSE <<Head(f)>>)
         \o DoubleQuotes(Tail(f))

WriteField(f) ==
    IF Range(f) \cap CsvSpecial # {}
    THEN <<QUOTE>> \o DoubleQuotes(f) \o <<QUOTE>>
    ELSE f

\* writer.writerow([timestamp, headline])
WriteRow(ts, h) == WriteField(ts) \o <<COMMA>> \o WriteField(h) \o <<CR, LF>>

\* open(csv_filename, "r", encoding="utf-8"): universal newlines.
RECURSIVE UniversalNewlines(_)
UniversalNewlines(s) ==
    IF s = <<>> THEN <<>>
    ELSE IF Head(s) = CR
         THEN <<LF>> \o UniversalNewlines(
                 IF Len(s) >= 2 /\ s[2] = LF THEN SubSeq(s, 3, Len(s))
                 ELSE Tail(s))
         ELSE <<Head(s)>> \o UniversalNewlines(Tail(s))

\* csv.reader: the parser's states, one character at a time.
RECURSIVE CsvReader(_, _, _, _, _)
CsvReader(text, state, field, row, rows) ==
    IF text = <<>>
    THEN IF state = "start_record" THEN rows
         ELSE Append(rows, Append(row, field))
    ELSE LET c == Head(text)
             rest == Tail(text)
         IN CASE state = "start_record" ->
                   IF c = LF
                   THEN CsvReader(rest, "start_record", <<>>, <<>>,
                                  Append(rows, <<>>))
                   ELSE CsvReader(text, "start_field", <<>>, <<>>, rows)
              [] state = "start_field" ->
                   IF c = LF
                   THEN CsvReader(rest, "start_record", <<>>, <<>>,
                                  Append(rows, Append(row, <<>>)))
                   ELSE IF c = QUOTE
                   THEN CsvReader(rest, "in_quoted_field", <<>>, row, rows)
                   ELSE IF c = COMMA
                   THEN CsvReader(rest, "start_field", <<>>,
                                  Append(row, <<>>), rows)
                   ELSE CsvReader(rest, "in_field", <<c>>, row, rows)
              [] state = "in_field" ->
                   IF c = LF
                   THEN CsvReader(rest, "start_record", <<>>, <<>>,
                                  Append(rows, Append(row, field)))
                   ELSE IF c = COMMA
                   THEN CsvReader(rest, "start_field", <<>>,
                                  Append(row, field), rows)
                   ELSE CsvReader(rest, "in_field", Append(field, c), row,
                                  rows)
              [] state = "in_quoted_field" ->
                   IF c = QUOTE
                   THEN CsvReader(rest, "quote_in_quoted_field", field, row,
                                  rows)
                   ELSE CsvReader(rest, "in_quoted_field", Append(field, c),
                                  row, rows)
              [] OTHER ->     \* quote_in_quoted_field
                   IF c = QUOTE
                   THEN CsvReader(rest, "in_quoted_field",
                                  Append(field, QUOTE), row, rows)
                   ELSE IF c = COMMA
                   THEN CsvReader(rest, "start_field", <<>>,
                                  Append(row, field), rows)
                   ELSE IF c = LF
                   THEN CsvReader(rest, "start_record", <<>>, <<>>,
                                  Append(rows, Append(row, field)))
                   ELSE CsvReader(rest, "in_field", Append(field, c), row,
                                  rows)

ReadRows(file) ==
    CsvReader(UniversalNewlines(file), "start_record", <<>>, <<>>, <<>>)

---------------------------------------------------------------------------
(***************************************************************************)
(* FLYBOTY.py                                                              *)
(***************************************************************************)
MaxSnap == 2       \* headlines in one snapshot
MaxCycles == 2     \* poll cycles, over all runs
MaxRuns == 2       \* process runs

\* Texts of <a class="newsTitleLink"> elements: get_text(strip=True) is
\* non-empty and has no white space at its ends, and may hold any character
\* inside.
Headlines == {<<"a">>, <<"b", COMMA, QUOTE, CR, "c">>}

\* What parse_headlines_from_html can return for a page.
Snapshots == UNION {[1..n -> Headlines] : n \in 0..MaxSnap}

\* load_existing_headlines
load_existing_headlines(file) ==
    LET rows == ReadRows(file)
    IN {rows[i][2] : i \in {k \in 1..Len(rows) : Len(rows[k]) >= 2}}

\* The list comprehension of line 166 without its condition: every
\* headline of the snapshot counts as new.
NewItemsAll(headlines, seen) ==
    [k \in 1..Len(headlines) |-> [h |-> headlines[k], idx |-> k]]

\* The list comprehension of line 166 taken from the last element backwards.
NewItemsReversed(headlines, seen) ==
    LET Fresh(i) == headlines[i] \notin seen
        idx == SelectSeq([i \in 1..Len(headlines) |-> i], Fresh)
    IN [k \in 1..Len(idx) |->
           [h |-> headlines[idx[Len(idx) + 1 - k]],
            idx |-> idx[Len(idx) + 1 - k]]]

\* new_items = [h for h in headlines if h not in seen_headlines], each item
\* with its place in the snapshot.
NewItems(headlines, seen) ==
    LET Fresh(i) == headlines[i] \notin seen
        idx == SelectSeq([i \in 1..Len(headlines) |-> i], Fresh)
    IN [k \in 1..Len(idx) |-> [h |-> headlines[idx[k]], idx |-> idx[k]]]

InitFly ==
    /\ pcFly = "start"
    /\ seen_headlines = {}
    /\ flylines = <<>>
    /\ printed = <<>>
    /\ written = <<>>
    /\ run = 1
    /\ cycle = 0
    /\ reattach_due = FALSE
    /\ snapshot = <<>>
    /\ pass_ended = FALSE
    /\ twitter = <<>>
    /\ IdlePub /\ IdleNews /\ IdleTail /\ IdleAgg /\ IdleBox /\ IdleUsage /\ IdleMisc

\* What a call of attach_to_fly_tab can do: return the tab, raise
\* RuntimeError (no tab has the title), or raise something else
\* (browser.list_tab, line 52, is outside the try of the function and
\* raises when Chrome does not answer).
AttachOutcomes == {"attached", "RuntimeError", "other"}

\* main(), lines 133-150: attach to the tab, or print the error and return
\* (only RuntimeError is caught); then prime seen_headlines from
\* flylines.csv.
FlyStart ==
    /\ pcFly = "start"
    /\ \E outcome \in AttachOutcomes :
          CASE outcome = "attached" ->
                  /\ seen_headlines' = load_existing_headlines(flylines)
                  /\ pcFly' = "poll"
            [] outcome = "RuntimeError" ->
                  /\ pcFly' = "exited"
                  /\ UNCHANGED seen_headlines
            [] OTHER ->
                  /\ pcFly' = "start_failed"
                  /\ UNCHANGED seen_headlines
    /\ UNCHANGED <<flylines, printed, written, run, cycle, reattach_due,
                   snapshot, pass_ended>>
    /\ UNCHANGED <<pubVars, twitter, newsVars, tailVars, aggVars, boxVars, utVars, miscVars>>

\* One pass of the loop body that got its snapshot (lines 155-183).  at is
\* 0 when nothing interferes; with kind "Exception", at = -1 is open()
\* raising and at = k >= 1 the k-th writerow raising (handled at line 197);
\* with kind "KeyboardInterrupt", at = -1 is Ctrl+C before the first item
\* and at = k >= 1 Ctrl+C after the k-th item was printed and before its
\* row was written (handled at line 202).  The rows accepted before reach
\* the file when the with block closes it.
FlyCycle ==
    /\ pcFly = "poll"
    /\ cycle < MaxCycles
    /\ \E headlines \in Snapshots :
          LET new_items == NewItems(headlines, seen_headlines)
              n == Len(new_items)
          IN \E at \in (IF n = 0 THEN {0} ELSE (0 - 1)..n),
                kind \in {"Exception", "KeyboardInterrupt"} :
               LET nPrinted == IF at = 0 - 1 THEN 0
                               ELSE IF at = 0 THEN n ELSE at
                   nWritten == IF at = 0 - 1 THEN 0
                               ELSE IF at = 0 THEN n ELSE at - 1
                   Entry(k) == [h |-> new_items[k].h, idx |-> new_items[k].idx,
                                run |-> run, cycle |-> cycle + 1]
               IN /\ at = 0 => kind = "Exception"
                  /\ seen_headlines' = seen_headlines \cup
                                         {new_items[k].h : k \in 1..nPrinted}
                  /\ printed' = printed \o [k \in 1..nPrinted |-> Entry(k)]
                  /\ written' = written \o [k \in 1..nWritten |-> Entry(k)]
                  /\ flylines' = flylines \o
                        Concat([k \in 1..nWritten |->
                                   WriteRow(<<STAMP>>, new_items[k].h)])
                  /\ pcFly' = IF at = 0 THEN "poll"
                              ELSE IF kind = "Exception" THEN "backoff"
                              ELSE "exited"
                  /\ snapshot' = headlines
                  /\ pass_ended' = (at = 0)
    /\ cycle' = cycle + 1
    /\ UNCHANGED <<run, reattach_due>>
    /\ UNCHANGED <<pubVars, twitter, newsVars, tailVars, aggVars, boxVars, utVars, miscVars>>

\* A pass in which refresh_page or dump_full_html raised.  A
\* pychrome.exceptions.RuntimeException goes to the handler of line 185
\* (beep, sleep 5, attach again), every other exception to the handler of
\* line 197 (beep, sleep 5).
FlySnapshotError ==
    /\ pcFly = "poll"
    /\ \E kind \in {"RuntimeException", "Exception"} :
          pcFly' = IF kind = "RuntimeException" THEN "reattach" ELSE "backoff"
    /\ reattach_due' = TRUE
    /\ UNCHANGED <<seen_headlines, flylines, printed, written, run, cycle,
                   snapshot, pass_ended>>
    /\ UNCHANGED <<pubVars, twitter, newsVars, tailVars, aggVars, boxVars, utVars, miscVars>>

\* Lines 189-195: attach_to_fly_tab inside the handler.  RuntimeError is
\* caught (beep, continue); any other exception leaves the handler, the
\* loop and main().
FlyReattach ==
    /\ pcFly = "reattach"
    /\ \E outcome \in AttachOutcomes :
          pcFly' = CASE outcome = "attached" -> "reattached"
                     [] outcome = "RuntimeError" -> "reattach_failed"
                     [] OTHER -> "crashed"
    /\ reattach_due' = FALSE
    /\ UNCHANGED <<seen_headlines, flylines, printed, written, run, cycle,
                   snapshot, pass_ended>>
    /\ UNCHANGED <<pubVars, twitter, newsVars, tailVars, aggVars, boxVars, utVars, miscVars>>

\* The handler ends (after the new attach, after `continue`, or after the
\* sleep of line 200) and the loop starts its next pass.
FlyContinue ==
    /\ pcFly \in {"reattached", "reattach_failed", "backoff"}
    /\ pcFly' = "poll"
    /\ UNCHANGED <<seen_headlines, flylines, printed, written, run, cycle,
                   reattach_due, snapshot, pass_ended>>
    /\ UNCHANGED <<pubVars, twitter, newsVars, tailVars, aggVars, boxVars, utVars, miscVars>>

\* KeyboardInterrupt between two passes or inside a handler (lines 202-210).
FlyInterrupt ==
    /\ pcFly \in {"poll", "reattach", "reattached", "reattach_failed",
                  "backoff"}
    /\ pcFly' = "exited"
    /\ UNCHANGED <<seen_headlines, flylines, printed, written, run, cycle,
                   reattach_due, snapshot, pass_ended>>
    /\ UNCHANGED <<pubVars, twitter, newsVars, tailVars, aggVars, boxVars, utVars, miscVars>>

\* The script is started again: a new process, the same flylines.csv.
FlyRestart ==
    /\ pcFly \in {"poll", "exited", "crashed", "start_failed"}
    /\ run < MaxRuns
    /\ run' = run + 1
    /\ pcFly' = "start"
    /\ seen_headlines' = {}
    /\ reattach_due' = FALSE
    /\ snapshot' = <<>>
    /\ pass_ended' = FALSE
    /\ UNCHANGED <<flylines, printed, written, cycle>>
    /\ UNCHANGED <<pubVars, twitter, newsVars, tailVars, aggVars, boxVars, utVars, miscVars>>

NextFly ==
    \/ FlyStart
    \/ FlyCycle
    \/ FlySnapshotError
    \/ FlyReattach
    \/ FlyContinue
    \/ FlyInterrupt
    \/ FlyRestart

SpecFly == InitFly /\ [][NextFly]_vars

\* The same program when the process keeps running: some step of it is
\* always taken again (the loop has no blocking call without a timeout).
SpecFlyLive == InitFly /\ [][NextFly]_vars /\ WF_vars(NextFly)

---------------------------------------------------------------------------
(***************************************************************************)
(* Claims checked under SpecFly.                                           *)
(***************************************************************************)

\* C1: in one run of FLYBOTY.main each distinct headline string is emitted
\* (printed as a new headline, appended as a row to flylines.csv) at most
\* once, whatever the snapshots, repetitions inside a snapshot included.
C1_NoDuplicateEmission ==
    /\ \A i, j \in 1..Len(printed) :
          (i < j /\ printed[i].run = printed[j].run)
             => printed[i].h # printed[j].h
    /\ \A i, j \in 1..Len(written) :
          (i < j /\ written[i].run = written[j].run)
             => written[i].h # written[j].h

\* C7: a headline recorded in a row of flylines.csv by an earlier run is
\* never emitted again by a later run.
C7_RestartPriming ==
    \A i \in 1..Len(written), j \in 1..Len(printed) :
        written[i].run < printed[j].run => written[i].h # printed[j].h

\* C15: failed attempts to attach are not repeated for ever: the watcher
\* does not go on failing to attach again and again without ever attaching.
C15_BoundedReconnection ==
    ~([]<>(pcFly = "reattach_failed") /\ <>[](pcFly # "reattached"))

\* C16: after an error raised while reloading the page or reading the
\* snapshot, whatever its type, the next snapshot is requested only after
\* attach_to_fly_tab was called again.
C16_BackoffThenReattach ==
    pcFly = "poll" => ~reattach_due

\* C17: inside the polling loop no error of a pass or of a re-attachment
\* ends the watcher.
C17_NoFatalErrorWhilePolling ==
    pcFly # "crashed"

\* C20: the stop signal acts between two passes only, so when the watcher
\* has stopped every printed headline has its row in flylines.csv.
C20_CooperativeCancellation ==
    pcFly = "exited" => printed = written

\* C21: every headline of a snapshot the pass obtained that is not yet in
\* seen_headlines is printed and written to flylines.csv by the end of
\* that pass.
C21_NoMissedEmission ==
    [][cycle' = cycle + 1 =>
          \A i \in 1..Len(snapshot') :
             snapshot'[i] \notin seen_headlines =>
                /\ \E k \in (Len(printed) + 1)..Len(printed') :
                      printed'[k].h = snapshot'[i]
                /\ \E k \in (Len(written) + 1)..Len(written') :
                      written'[k].h = snapshot'[i]]_vars

EmittedBefore(x, y) ==
    \/ x.run < y.run
    \/ x.run = y.run /\ x.cycle < y.cycle
    \/ x.run = y.run /\ x.cycle = y.cycle /\ x.idx < y.idx

\* C8: the headlines of one cycle are printed and written in the order of
\* their places in the snapshot, and everything of cycle k precedes
\* everything of cycle k + 1.
C8_OrderPreserved ==
    /\ \A i, j \in 1..Len(printed) :
          i < j => EmittedBefore(printed[i], printed[j])
    /\ \A i, j \in 1..Len(written) :
          i < j => EmittedBefore(written[i], written[j])

\* Two different new headlines written in one cycle, and one in a later one.
C8_Witness ==
    \E i, j, k \in 1..Len(written) :
        /\ i < j /\ j < k
        /\ written[i].cycle = written[j].cycle
        /\ written[i].h # written[j].h
        /\ written[j].cycle < written[k].cycle

\* C32: whenever the loop of FLYBOTY.main stands between two passes (a pass
\* ended, or its error handler is sleeping), every headline in
\* seen_headlines has a row in flylines.csv: one that this or an earlier run
\* wrote, or one that load_existing_headlines reads from the file.
C32_SeenSetInLog ==
    pcFly \in {"poll", "backoff"} =>
       \A h \in seen_headlines :
          \/ h \in load_existing_headlines(flylines)
          \/ \E i \in 1..Len(written) : written[i].h = h

---------------------------------------------------------------------------
(***************************************************************************)
(* Text helpers: str.strip, str.splitlines, "\n".join, dict.fromkeys.      *)
(***************************************************************************)
SPACE == " "
WhiteSpace == {SPACE, LF, CR}

RECURSIVE LStrip(_)
LStrip(s) ==
    IF s # <<>> /\ Head(s) \in WhiteSpace THEN LStrip(Tail(s)) ELSE s

RECURSIVE RStrip(_)
RStrip(s) ==
    IF s # <<>> /\ s[Len(s)] \in WhiteSpace
    THEN RStrip(SubSeq(s, 1, Len(s) - 1))
    ELSE s

Strip(s) == RStrip(LStrip(s))

RECURSIVE Join(_)
Join(lines) ==
    IF lines = <<>> THEN <<>>
    ELSE IF Len(lines) = 1 THEN lines[1]
    ELSE lines[1] \o <<LF>> \o Join(Tail(lines))

\* str.splitlines on a text whose line breaks are LF: no empty last line.
RECURSIVE SplitLinesFrom(_, _)
SplitLinesFrom(s, cur) ==
    IF s = <<>> THEN (IF cur = <<>> THEN <<>> ELSE <<cur>>)
    ELSE IF Head(s) = LF THEN <<cur>> \o SplitLinesFrom(Tail(s), <<>>)
    ELSE SplitLinesFrom(Tail(s), Append(cur, Head(s)))

SplitLines(s) == SplitLinesFrom(s, <<>>)

\* list(dict.fromkeys(xs)): first occurrences, in order.
RECURSIVE Dedup(_)
Dedup(xs) ==
    IF xs = <<>> THEN <<>>
    ELSE LET init == Dedup(SubSeq(xs, 1, Len(xs) - 1))
             last == xs[Len(xs)]
         IN IF last \in Range(init) THEN init ELSE Append(init, last)

---------------------------------------------------------------------------
(***************************************************************************)
(* difflib.ndiff(a, b) on short lists of lines (no junk, no "popular"      *)
(* elements): the lines of b outside SequenceMatcher's matching blocks are *)
(* the ones ndiff marks '+ '.                                              *)
(***************************************************************************)

\* SequenceMatcher.find_longest_match on a[alo..ahi], b[blo..bhi]: a longest
\* common block, the one starting earliest in a, then earliest in b.
FindLongestMatch(a, b, alo, ahi, blo, bhi) ==
    LET cands ==
          {m \in (alo..ahi) \X (blo..bhi) \X (1..(ahi - alo + 1)) :
              /\ m[1] + m[3] - 1 <= ahi
              /\ m[2] + m[3] - 1 <= bhi
              /\ \A d \in 0..(m[3] - 1) : a[m[1] + d] = b[m[2] + d]}
    IN IF cands = {} THEN <<alo, blo, 0>>
       ELSE CHOOSE m \in cands :
              \A o \in cands :
                 \/ m[3] > o[3]
                 \/ m[3] = o[3] /\ m[1] < o[1]
                 \/ m[3] = o[3] /\ m[1] = o[1] /\ m[2] <= o[2]

\* get_matching_blocks: the places of b covered by a matching block.
RECURSIVE MatchedB(_, _, _, _, _, _)
MatchedB(a, b, alo, ahi, blo, bhi) ==
    IF alo > ahi \/ blo > bhi THEN {}
    ELSE LET m == FindLongestMatch(a, b, alo, ahi, blo, bhi)
         IN IF m[3] = 0 THEN {}
            ELSE (m[2]..(m[2] + m[3] - 1))
                 \cup MatchedB(a, b, alo, m[1] - 1, blo, m[2] - 1)
                 \cup MatchedB(a, b, m[1] + m[3], ahi, m[2] + m[3], bhi)

\* [line[2:] for line in ndiff(a, b) if line.startswith('+ ')]
NdiffPlus(a, b) ==
    LET matched == MatchedB(a, b, 1, Len(a), 1, Len(b))
        Added(i) == i \notin matched
        idx == SelectSeq([i \in 1..Len(b) |-> i], Added)
    IN [k \in 1..Len(idx) |-> b[idx[k]]]

---------------------------------------------------------------------------
(***************************************************************************)
(* Newsfeeder.py and 'WSBSENTIMENT CHECK.py': monitor_fiatfeed_window, the *)
(* same loop in both scripts, each process with its own last_text.         *)
(***************************************************************************)
MaxFeed == 2       \* lines the window shows at once
MaxPosts == 2      \* polls stop once this many posts were made

Watchers == {"Newsfeeder.py", "WSBSENTIMENT CHECK.py"}

\* A line of the feed, "HH:MM:SS HEADLINE", as one character.
FeedLines == {<<"A">>, <<"B">>}
Feeds == UNION {[1..n -> FeedLines] : n \in 0..MaxFeed}

\* get_news_from_statics: the assembled lines, joined and stripped.
get_news(window) == Strip(Join(window))

\* The rows of the new lines whose post_to_twitter call returned a tweet id.
CsvRowsOfPosted(w, new_lines, outcome) ==
    LET Posted(k) == outcome[k] = "201"
        kept == SelectSeq([k \in 1..Len(new_lines) |-> k], Posted)
    IN [k \in 1..Len(kept) |-> [by |-> w, line |-> new_lines[kept[k]]]]

\* Lines 344-348: the rows appended to fiatfeed_news.csv, one for every
\* line of new_lines, whatever its post_to_twitter call did.
CsvRows(w, new_lines, outcome) ==
    [k \in 1..Len(new_lines) |-> [by |-> w, line |-> new_lines[k]]]

InitNews ==
    /\ feed \in Feeds
    /\ pcNews = [w \in Watchers |-> "init"]
    /\ last_text = [w \in Watchers |-> <<>>]
    /\ news_csv = <<>>
    /\ twitter = <<>>
    /\ IdlePub /\ IdleFly /\ IdleTail /\ IdleAgg /\ IdleBox /\ IdleUsage /\ IdleMisc

\* The FIATFEED window shows other lines.
FeedUpdate ==
    /\ \E f \in Feeds : f # feed /\ feed' = f
    /\ UNCHANGED <<pcNews, last_text, news_csv, twitter>>
    /\ UNCHANGED <<pubVars, flyVars, tailVars, aggVars, boxVars, utVars, miscVars>>

\* Lines 304-310: last_text is initialised from the first read.
NewsStart(w) ==
    /\ pcNews[w] = "init"
    /\ last_text' = [last_text EXCEPT ![w] = get_news(feed)]
    /\ pcNews' = [pcNews EXCEPT ![w] = "monitor"]
    /\ UNCHANGED <<feed, news_csv, twitter>>
    /\ UNCHANGED <<pubVars, flyVars, tailVars, aggVars, boxVars, utVars, miscVars>>

\* One pass of the while loop, lines 312-354, that read the text.  Every
\* new line is passed to publisher.post_to_twitter (an exception of it is
\* caught); an exception of open("fiatfeed_news.csv") is caught nowhere.
NewsPoll(w) ==
    /\ pcNews[w] = "monitor"
    /\ Len(twitter) < MaxPosts
    /\ LET current_text == get_news(feed) IN
          IF current_text # <<>> /\ current_text # last_text[w]
          THEN LET new_lines == Dedup(NdiffPlus(SplitLines(last_text[w]),
                                                SplitLines(current_text)))
               IN \E outcome \in [1..Len(new_lines) -> PostOutcomes],
                     csv_ok \in (IF new_lines = <<>> THEN {TRUE}
                                 ELSE BOOLEAN) :
                     /\ twitter' = twitter \o
                           [k \in 1..Len(new_lines) |->
                               [by |-> w, text |-> new_lines[k], t |-> 0,
                                recorded |-> FALSE, result |-> outcome[k]]]
                     /\ IF csv_ok
                        THEN /\ news_csv' = news_csv \o
                                   CsvRows(w, new_lines, outcome)
                             /\ last_text' =
                                   [last_text EXCEPT ![w] = current_text]
                             /\ UNCHANGED pcNews
                        ELSE /\ pcNews' = [pcNews EXCEPT ![w] = "crashed"]
                             /\ UNCHANGED <<news_csv, last_text>>
          ELSE UNCHANGED <<twitter, news_csv, last_text, pcNews>>
    /\ UNCHANGED feed
    /\ UNCHANGED <<pubVars, flyVars, tailVars, aggVars, boxVars, utVars, miscVars>>

\* Lines 316-326: the window is gone, or reading it raised: the loop ends.
NewsStop(w) ==
    /\ pcNews[w] = "monitor"
    /\ pcNews' = [pcNews EXCEPT ![w] = "stopped"]
    /\ UNCHANGED <<feed, last_text, news_csv, twitter>>
    /\ UNCHANGED <<pubVars, flyVars, tailVars, aggVars, boxVars, utVars, miscVars>>

NextNews ==
    \/ FeedUpdate
    \/ \E w \in Watchers : NewsStart(w)
    \/ \E w \in Watchers : NewsPoll(w)
    \/ \E w \in Watchers : NewsStop(w)

SpecNews == InitNews /\ [][NextNews]_vars

\* Newsfeeder.py running alone: the other script was not started.
InitNewsAlone ==
    /\ feed \in Feeds
    /\ pcNews = [w \in Watchers |->
                    IF w = "Newsfeeder.py" THEN "init" ELSE "off"]
    /\ last_text = [w \in Watchers |-> <<>>]
    /\ news_csv = <<>>
    /\ twitter = <<>>
    /\ IdlePub /\ IdleFly /\ IdleTail /\ IdleAgg /\ IdleBox /\ IdleUsage /\ IdleMisc

SpecNewsAlone == InitNewsAlone /\ [][NextNews]_vars

---------------------------------------------------------------------------
(***************************************************************************)
(* Claims checked under SpecNews.                                          *)
(***************************************************************************)

\* C9: in one monitoring session of Newsfeeder.monitor_fiatfeed_window each
\* distinct feed line is emitted (posted through post_to_twitter, appended
\* to fiatfeed_news.csv) at most once, also when it left the window and came
\* back.
C9_NewsEmittedOnce ==
    /\ \A i, j \in 1..Len(twitter) :
          (i < j /\ twitter[i].by = "Newsfeeder.py"
                 /\ twitter[j].by = "Newsfeeder.py")
             => twitter[i].text # twitter[j].text
    /\ \A i, j \in 1..Len(news_csv) :
          (i < j /\ news_csv[i].by = "Newsfeeder.py"
                 /\ news_csv[j].by = "Newsfeeder.py")
             => news_csv[i].line # news_csv[j].line

\* C19: a failure to write the emission log or the usage ledger does not
\* end the watcher loop: no exception of open("fiatfeed_news.csv") or of
\* save_usage() leaves monitor_fiatfeed_window or publisher_v2.main.
C19_PersistenceFailureNonFatal ==
    /\ \A w \in DOMAIN pcNews : pcNews[w] # "crashed"
    /\ pcMain # "save_raised"

\* C28: every line Newsfeeder emits in a pass (posts through
\* post_to_twitter, appends to fiatfeed_news.csv) is absent from the
\* previous snapshot last_text, also when lines only changed their places.
C28_NoFalsePositive ==
    [][/\ \A i \in (Len(twitter) + 1)..Len(twitter') :
             twitter'[i].by = "Newsfeeder.py" =>
                twitter'[i].text
                   \notin Range(SplitLines(last_text["Newsfeeder.py"]))
       /\ \A i \in (Len(news_csv) + 1)..Len(news_csv') :
             news_csv'[i].by = "Newsfeeder.py" =>
                news_csv'[i].line
                   \notin Range(SplitLines(last_text["Newsfeeder.py"]))]_vars

\* C10: every post_to_twitter call of a headline watcher was allowed by
\* UsageTracker.can_post() and recorded with record_post().
C10_PublishGated ==
    \A i \in 1..Len(twitter) : twitter[i].recorded

\* C33: of the processes Launcher.py starts, at most one passes a given feed
\* line to publisher.post_to_twitter: no line is posted by Newsfeeder.py and
\* by 'WSBSENTIMENT CHECK.py' as well.
C33_OnePublisherPerLine ==
    \A i, j \in 1..Len(twitter) :
        twitter[i].by # twitter[j].by => twitter[i].text # twitter[j].text

---------------------------------------------------------------------------
(***************************************************************************)
(* Claims checked under SpecNewsAlone.                                     *)
(***************************************************************************)

\* The lines passed to post_to_twitter by the step, in the order of the
\* calls.
NewlyAttempted ==
    [k \in 1..(Len(twitter') - Len(twitter)) |-> twitter'[Len(twitter) + k].text]

\* The lines of the rows the step appended to fiatfeed_news.csv.
NewlyLogged ==
    [k \in 1..(Len(news_csv') - Len(news_csv)) |-> news_csv'[Len(news_csv) + k].line]

\* C35: a pass of Newsfeeder with new lines that wrote fiatfeed_news.csv
\* appended one row for every line it had passed to post_to_twitter, in the
\* order of the calls and each line once, whatever the calls returned or
\* raised; and a pass in which opening the file raised had made its
\* post_to_twitter calls before.
C35_LoggedWhateverThePost ==
    [][/\ (twitter' # twitter /\ pcNews'["Newsfeeder.py"] = "monitor") =>
             /\ NewlyLogged = NewlyAttempted
             /\ \A k, l \in 1..Len(NewlyLogged) :
                   k # l => NewlyLogged[k] # NewlyLogged[l]
             /\ SubSeq(news_csv', 1, Len(news_csv)) = news_csv
       /\ (pcNews["Newsfeeder.py"] = "monitor"
           /\ pcNews'["Newsfeeder.py"] = "crashed") =>
             /\ twitter' # twitter
             /\ news_csv' = news_csv]_vars

\* One pass posted two new lines, the call of one returned a tweet id and
\* the call of the other raised, and both lines have their rows.
C35_Witness ==
    \E i \in 1..(Len(twitter) - 1), j \in 1..(Len(news_csv) - 1) :
        /\ twitter[i].result = "raised"
        /\ twitter[i + 1].result = "201"
        /\ twitter[i].text # twitter[i + 1].text
        /\ news_csv[j].line = twitter[i].text
        /\ news_csv[j + 1].line = twitter[i + 1].text

---------------------------------------------------------------------------
(***************************************************************************)
(* Newsfeeder.monitor_fiatfeed_window when the user confirmed a GroupBox   *)
(* control (approach == "groupbox"): the text is read from that control    *)
(* and cut down to its first news item.                                    *)
(***************************************************************************)
BoxWatcher == "Newsfeeder.py"

\* The characters of a text at which r'\b\d{2}:\d{2}:\d{2}\b' matches: a
\* feed line "HH:MM:SS HEADLINE" is one character and starts with one.
TimeStamped == {"A", "B"}

\* ctrl.window_text().strip() of the GroupBox showing the feed lines.
GroupBoxText(window) == Strip(Join(window))

\* extract_first_news_item: the text up to the second timestamp, stripped,
\* or all of it when there are fewer than two.
extract_first_news_item(text) ==
    LET IsMatch(i) == text[i] \in TimeStamped
        matches == SelectSeq([i \in 1..Len(text) |-> i], IsMatch)
    IN IF Len(matches) >= 2
       THEN Strip(SubSeq(text, 1, matches[2] - 1))
       ELSE Strip(text)

\* The test of line 328 without `current_text and`.
TextChangedOrEmpty(current, last) == current # last

\* Line 328: if current_text and current_text != last_text
TextChanged(current, last) == current # <<>> /\ current # last

InitBox ==
    /\ feed \in Feeds
    /\ pcNews = [w \in Watchers |-> IF w = BoxWatcher THEN "init" ELSE "off"]
    /\ last_text = [w \in Watchers |-> <<>>]
    /\ news_csv = <<>>
    /\ twitter = <<>>
    /\ IdleBox
    /\ IdlePub /\ IdleFly /\ IdleTail /\ IdleAgg /\ IdleUsage /\ IdleMisc

\* The window shows other lines.
BoxFeedUpdate ==
    /\ \E f \in Feeds : f # feed /\ feed' = f
    /\ UNCHANGED <<pcNews, last_text, news_csv, twitter, boxVars>>
    /\ UNCHANGED <<pubVars, flyVars, tailVars, aggVars, utVars, miscVars>>

\* get_news_from_groupbox: the first item of the control's text, or "" when
\* reading the control raised.
BoxGetNews(ok) ==
    /\ raw_text' = IF ok THEN GroupBoxText(feed) ELSE <<>>
    /\ polled_text' = IF ok THEN extract_first_news_item(raw_text') ELSE <<>>

\* Lines 304-308: last_text is initialised from the first read.
BoxStart ==
    /\ pcNews[BoxWatcher] = "init"
    /\ \E ok \in BOOLEAN : BoxGetNews(ok)
    /\ last_text' = [last_text EXCEPT ![BoxWatcher] = polled_text']
    /\ shown' = Range(SplitLines(raw_text'))
    /\ pcNews' = [pcNews EXCEPT ![BoxWatcher] = "monitor"]
    /\ UNCHANGED <<feed, news_csv, twitter>>
    /\ UNCHANGED <<pubVars, flyVars, tailVars, aggVars, utVars, miscVars>>

\* Lines 313-323: after the sleep the control is read.
BoxRead ==
    /\ pcNews[BoxWatcher] = "monitor"
    /\ Len(twitter) < MaxPosts
    /\ \E ok \in BOOLEAN : BoxGetNews(ok)
    /\ pcNews' = [pcNews EXCEPT ![BoxWatcher] = "compare"]
    /\ UNCHANGED <<feed, last_text, news_csv, twitter, shown>>
    /\ UNCHANGED <<pubVars, flyVars, tailVars, aggVars, utVars, miscVars>>

\* Lines 328-354: the comparison with last_text and the emission of the new
\* lines; an exception of open("fiatfeed_news.csv") is caught nowhere.
BoxCompare ==
    /\ pcNews[BoxWatcher] = "compare"
    /\ IF TextChanged(polled_text, last_text[BoxWatcher])
       THEN LET new_lines ==
                   Dedup(NdiffPlus(SplitLines(last_text[BoxWatcher]),
                                   SplitLines(polled_text)))
            IN \E outcome \in [1..Len(new_lines) -> PostOutcomes],
                  csv_ok \in (IF new_lines = <<>> THEN {TRUE}
                              ELSE BOOLEAN) :
                  /\ twitter' = twitter \o
                        [k \in 1..Len(new_lines) |->
                            [by |-> BoxWatcher, text |-> new_lines[k],
                             t |-> 0, recorded |-> FALSE,
                             result |-> outcome[k]]]
                  /\ IF csv_ok
                     THEN /\ news_csv' = news_csv \o
                                CsvRows(BoxWatcher, new_lines, outcome)
                          /\ last_text' = [last_text EXCEPT
                                              ![BoxWatcher] = polled_text]
                          /\ pcNews' = [pcNews EXCEPT
                                           ![BoxWatcher] = "monitor"]
                     ELSE /\ pcNews' = [pcNews EXCEPT
                                           ![BoxWatcher] = "crashed"]
                          /\ UNCHANGED <<news_csv, last_text>>
       ELSE /\ pcNews' = [pcNews EXCEPT ![BoxWatcher] = "monitor"]
            /\ UNCHANGED <<twitter, news_csv, last_text>>
    /\ shown' = shown \cup Range(SplitLines(raw_text))
    /\ UNCHANGED <<feed, raw_text, polled_text>>
    /\ UNCHANGED <<pubVars, flyVars, tailVars, aggVars, utVars, miscVars>>

\* Lines 316-318: the window is gone and the loop ends.
BoxStop ==
    /\ pcNews[BoxWatcher] = "monitor"
    /\ pcNews' = [pcNews EXCEPT ![BoxWatcher] = "stopped"]
    /\ UNCHANGED <<feed, last_text, news_csv, twitter, boxVars>>
    /\ UNCHANGED <<pubVars, flyVars, tailVars, aggVars, utVars, miscVars>>

\* main(), lines 364-372: monitor_fiatfeed_window returned, or the window
\* was not found; after time.sleep(5) find_fiatfeed_pid looks for it again.
BoxDetect ==
    /\ pcNews[BoxWatcher] \in {"stopped", "absent"}
    /\ \E found \in BOOLEAN :
          pcNews' = [pcNews EXCEPT
                        ![BoxWatcher] = IF found THEN "attach" ELSE "absent"]
    /\ UNCHANGED <<feed, last_text, news_csv, twitter, boxVars>>
    /\ UNCHANGED <<pubVars, flyVars, tailVars, aggVars, utVars, miscVars>>

\* What lines 269-302 of monitor_fiatfeed_window can do: the user confirms
\* the GroupBox; the function returns (no pid, the attach raised, no control
\* was confirmed); window.descendants() of find_and_confirm_groupbox, line
\* 108, which is outside every try, raises because the window is gone.
AttachSteps == {"confirmed", "returned", "raised"}

\* Lines 269-302: from the call of monitor_fiatfeed_window to the confirmed
\* feed control.  main() has no handler, so an exception ends the process.
BoxAttach ==
    /\ pcNews[BoxWatcher] = "attach"
    /\ \E step \in AttachSteps :
          pcNews' = [pcNews EXCEPT
                        ![BoxWatcher] = CASE step = "confirmed" -> "init"
                                          [] step = "returned" -> "stopped"
                                          [] OTHER -> "crashed"]
    /\ UNCHANGED <<feed, last_text, news_csv, twitter, boxVars>>
    /\ UNCHANGED <<pubVars, flyVars, tailVars, aggVars, utVars, miscVars>>

\* One call of monitor_fiatfeed_window, from the confirmed control on.
NextBox ==
    \/ BoxFeedUpdate
    \/ BoxStart
    \/ BoxRead
    \/ BoxCompare
    \/ BoxStop

SpecBox == InitBox /\ [][NextBox]_vars

\* The steps of the Newsfeeder process itself, main() included.
BoxMain ==
    \/ BoxStart
    \/ BoxRead
    \/ BoxCompare
    \/ BoxDetect
    \/ BoxAttach

\* main() and the calls of monitor_fiatfeed_window it makes.
NextBoxMain ==
    \/ BoxFeedUpdate
    \/ BoxStop
    \/ BoxMain

\* The process while it is scheduled: a step of it that stays possible is
\* taken (its only blocking calls are the sleeps).
SpecBoxLive == InitBox /\ [][NextBoxMain]_vars /\ WF_vars(BoxMain)

---------------------------------------------------------------------------
(***************************************************************************)
(* Claims checked under SpecBox.                                           *)
(***************************************************************************)

\* C25: every news item that the GroupBox control's text holds at a poll
\* and did not hold at an earlier read is passed to post_to_twitter in the
\* pass of that poll, also when several items arrived since the last poll.
C25_NoMissedNews ==
    [][(pcNews[BoxWatcher] = "compare" /\ pcNews'[BoxWatcher] # "compare") =>
          \A line \in Range(SplitLines(raw_text)) \ shown :
             \E i \in (Len(twitter) + 1)..Len(twitter') :
                twitter'[i].text = line]_vars

\* C29: a pass whose polled text is empty or equal to last_text posts
\* nothing, appends nothing to fiatfeed_news.csv and leaves last_text as it
\* was, so a failed read (the empty string) followed by a read of the
\* earlier text emits nothing.
C29_UnchangedIsNoOp ==
    [][(/\ pcNews[BoxWatcher] = "compare"
        /\ pcNews'[BoxWatcher] # "compare"
        /\ \/ polled_text = <<>>
           \/ polled_text = last_text[BoxWatcher])
          => /\ twitter' = twitter
             /\ news_csv' = news_csv
             /\ last_text' = last_text
             /\ pcNews'[BoxWatcher] = "monitor"]_vars

\* A pass that polled the empty string while last_text held a news item,
\* after an item had been emitted.
C29_Witness ==
    /\ pcNews[BoxWatcher] = "monitor"
    /\ polled_text = <<>>
    /\ last_text[BoxWatcher] # <<>>
    /\ twitter # <<>>

\* C31: Newsfeeder.main never stops on its own: whenever monitoring has
\* stopped, for whatever reason, main looks for the FIATFEED window again.
C31_AlwaysLooksAgain ==
    (pcNews[BoxWatcher] \in {"stopped", "crashed"})
       ~> (pcNews[BoxWatcher] \in {"attach", "absent"})

---------------------------------------------------------------------------
(***************************************************************************)
(* publisher_v2.MultiCSVHandler for one watched file, file_name =          *)
(* "flylines.csv" (the handler keeps an offset and a seen-set per file and *)
(* treats every file alike).  Another process writes the file, so it can   *)
(* change between any two steps of process_new_lines.                      *)
(***************************************************************************)
MaxWrites == 3     \* changes another process makes to the file

FLY == "Fly "              \* the four characters "Fly ", as one

\* What a writer appends at once: a row of FLYBOTY, the same headline with
\* the "Fly " prefix and no timestamp, an empty line.
Chunks == {WriteRow(<<STAMP>>, <<"a">>), WriteRow(<<STAMP>>, <<"b">>),
           <<FLY, "a", LF>>, <<LF>>}

\* re.sub(r'^\d{4}-\d{2}-\d{2}[T\s]\d{2}:\d{2}:\d{2}(?:\.\d+)?,\s*', '', line)
StripTimestamp(line) ==
    IF Len(line) >= 2 /\ line[1] = STAMP /\ line[2] = COMMA
    THEN LStrip(SubSeq(line, 3, Len(line)))
    ELSE line

\* Lines 118-123: the cleaned line of a line of flylines.csv.  A line that
\* is "Fly " and nothing else is "Fly" once stripped, which does not start
\* with "Fly ", and stays.
CleanLine(line) ==
    LET cleaned_line == Strip(StripTimestamp(line))
    IN IF Len(cleaned_line) > 1 /\ Head(cleaned_line) = FLY
       THEN Strip(Tail(cleaned_line))
       ELSE cleaned_line

\* The loop of lines 115-153: posted is posted_lines[file_name], out the
\* cleaned lines handed to aggregator.add_line and post_to_discord.
RECURSIVE ProcessLines(_, _, _)
ProcessLines(lines, posted, out) ==
    IF lines = <<>> THEN [posted |-> posted, out |-> out]
    ELSE IF Strip(Head(lines)) = <<>>
    THEN ProcessLines(Tail(lines), posted, out)
    ELSE LET cleaned_line == CleanLine(Head(lines))
         IN IF cleaned_line \in posted
            THEN ProcessLines(Tail(lines), posted, out)
            ELSE ProcessLines(Tail(lines), posted \cup {cleaned_line},
                              Append(out, cleaned_line))

\* MultiCSVHandler.__init__: the offset starts at the size of the file.
InitTail ==
    /\ csv_data \in {<<>>} \cup Chunks
    /\ file_offsets = Len(csv_data)
    /\ posted_lines = {}
    /\ pcTail = "idle"
    /\ new_offset = 0
    /\ current_offset = 0
    /\ discord = <<>>
    /\ added_lines = <<>>
    /\ read_end = Len(csv_data)
    /\ observed = 0 - 1
    /\ appended = {}
    /\ now = 0
    /\ twitter = <<>>
    /\ usage_file = [state |-> "missing", data |-> <<>>]
    /\ attempts = <<>>
    /\ last_can_post = [called |-> FALSE, t |-> 0, before |-> <<>>,
                        after |-> <<>>, result |-> FALSE]
    /\ buffer = <<>>
    /\ last_line_time = 0
    /\ pcMain = "off"
    /\ wake = 0
    /\ combined_message = <<>>
    /\ pcObs = "off"
    /\ obs_now = 0
    /\ nAdded = 0        \* here: the changes made to the file so far
    /\ oldest_add = 0
    /\ flushed = <<>>
    /\ vetoed = <<>>
    /\ IdleFly /\ IdleNews /\ IdleAgg /\ IdleBox /\ IdleUsage /\ IdleMisc

\* Another process appends to the file.
FileAppend ==
    /\ nAdded < MaxWrites
    /\ \E c \in Chunks :
          /\ csv_data' = csv_data \o c
          /\ appended' = appended \cup
                {CleanLine(l) : l \in {x \in Range(SplitLines(UniversalNewlines(c))) :
                                         Strip(x) # <<>>}}
    /\ nAdded' = nAdded + 1
    /\ UNCHANGED <<file_offsets, posted_lines, pcTail, new_offset,
                   current_offset, discord, added_lines, read_end, observed>>
    /\ UNCHANGED <<now, usage_file, attempts, last_can_post, buffer,
                   last_line_time, pcMain, wake, combined_message, pcObs,
                   obs_now, oldest_add, flushed, vetoed, twitter, flyVars,
                   newsVars, aggVars, boxVars, utVars, miscVars>>

\* Another process truncates the file (a rewrite is a truncation followed by
\* appends).
FileTruncate ==
    /\ nAdded < MaxWrites
    /\ \E k \in 0..(Len(csv_data) - 1) : csv_data' = SubSeq(csv_data, 1, k)
    /\ nAdded' = nAdded + 1
    /\ UNCHANGED <<file_offsets, posted_lines, pcTail, new_offset,
                   current_offset, discord, added_lines, read_end, observed,
                   appended>>
    /\ UNCHANGED <<now, usage_file, attempts, last_can_post, buffer,
                   last_line_time, pcMain, wake, combined_message, pcObs,
                   obs_now, oldest_add, flushed, vetoed, twitter, flyVars,
                   newsVars, aggVars, boxVars, utVars, miscVars>>

\* process_new_lines, lines 99-107: the stored offset, os.path.getsize, the
\* truncation branch, the test whether there is anything to read.
TailStat ==
    /\ pcTail = "idle"
    /\ LET size == Len(csv_data)
           truncated == size < file_offsets
           offset == IF truncated THEN 0 ELSE file_offsets
       IN /\ posted_lines' = IF truncated THEN {} ELSE posted_lines
          /\ IF size > offset
             THEN /\ pcTail' = "read"
                  /\ new_offset' = size
                  /\ current_offset' = offset
                  /\ UNCHANGED observed
             ELSE /\ pcTail' = "idle"
                  /\ new_offset' = 0
                  /\ current_offset' = 0
                  /\ observed' = size
    /\ UNCHANGED <<csv_data, file_offsets, discord, added_lines, read_end,
                   appended>>
    /\ UNCHANGED <<pubVars, twitter, flyVars, newsVars, aggVars, boxVars, utVars, miscVars>>

\* process_new_lines, lines 109-153: read from current_offset to the end of
\* the file as it is now, store new_offset, handle the lines.  raised_at is
\* 0 when every post_to_discord call returns and k >= 1 when the call for
\* the k-th line handed on raises (requests.post, line 54, has no handler
\* here or in the callers): that line is in posted_lines and in the
\* aggregator by then, and the loop does not reach the lines after it.  The
\* exception leaves on_modified into the observer thread of watchdog, which
\* either goes on with the next event or ends.
TailRead ==
    /\ pcTail = "read"
    /\ LET new_data == UniversalNewlines(
                          SubSeq(csv_data, current_offset + 1, Len(csv_data)))
           r == ProcessLines(SplitLines(new_data), posted_lines, <<>>)
       IN \E raised_at \in 0..Len(r.out) :
             LET nAdd == IF raised_at = 0 THEN Len(r.out) ELSE raised_at
                 nPost == IF raised_at = 0 THEN Len(r.out) ELSE raised_at - 1
             IN /\ posted_lines' =
                      posted_lines \cup {r.out[k] : k \in 1..nAdd}
                /\ added_lines' = added_lines \o SubSeq(r.out, 1, nAdd)
                /\ discord' = discord \o SubSeq(r.out, 1, nPost)
                /\ pcTail' \in (IF raised_at = 0 THEN {"idle"}
                                ELSE {"idle", "dead"})
    /\ file_offsets' = new_offset
    /\ read_end' = Len(csv_data)
    /\ observed' = new_offset
    /\ new_offset' = 0
    /\ current_offset' = 0
    /\ UNCHANGED <<csv_data, appended>>
    /\ UNCHANGED <<pubVars, twitter, flyVars, newsVars, aggVars, boxVars, utVars, miscVars>>

NextTail ==
    \/ FileAppend
    \/ FileTruncate
    \/ TailStat
    \/ TailRead

SpecTail == InitTail /\ [][NextTail]_vars

\* The handler on a file that only grows: the writer appends and nothing
\* truncates the file.
NextTailGrow ==
    \/ FileAppend
    \/ TailStat
    \/ TailRead

SpecTailGrow == InitTail /\ [][NextTailGrow]_vars

---------------------------------------------------------------------------
(***************************************************************************)
(* Claims checked under SpecTail.                                          *)
(***************************************************************************)

\* The cleaned lines a step hands to the aggregator and to Discord.
NewlyPosted == {discord'[k] : k \in (Len(discord) + 1)..Len(discord')}

\* C6 as stated: posted_lines[f] only grows, whatever happens to the file,
\* and a cleaned line that was added once is never again handed to the
\* aggregator or posted to Discord.
C6_SeenSetMonotone ==
    [][/\ posted_lines \subseteq posted_lines'
       /\ NewlyPosted \cap (posted_lines \cup Range(discord)) = {}]_vars

\* What process_new_lines does keep: the seen-set is emptied only by the
\* truncation branch (the file is shorter than the stored offset) and
\* otherwise only grows; a cleaned line is handed on only while it is not in
\* the seen-set, once per call, and is then in the seen-set.
SeenSetEmptiedOnlyOnTruncation ==
    [][/\ \/ posted_lines \subseteq posted_lines'
          \/ /\ pcTail = "idle"
             /\ Len(csv_data) < file_offsets
             /\ posted_lines' = {}
       /\ NewlyPosted \cap posted_lines = {}
       /\ NewlyPosted \subseteq posted_lines'
       /\ Cardinality(NewlyPosted) = Len(discord') - Len(discord)]_vars

\* C26: on a file that only grows every read of process_new_lines starts
\* where the one before ended, the first at the size the file had when the
\* handler was constructed, so no byte is read twice and none is skipped;
\* between two calls the stored offset is the end of what was read.
C26_ReadOnce ==
    IF pcTail = "read" THEN current_offset = read_end
    ELSE file_offsets = read_end

\* C27: once a call of process_new_lines has returned, the stored offset is
\* at most the file size that call observed.
C27_OffsetValid ==
    observed >= 0 => file_offsets <= observed

\* C34: a post_to_discord call that raises loses nothing: once
\* process_new_lines has returned, or was left by the exception, with the
\* stored offset at the end of a file that only grew, every non-blank line
\* appended since the handler was constructed has been handed to the
\* aggregator and posted to Discord.
C34_NothingLostOnError ==
    (pcTail = "idle" /\ file_offsets = Len(csv_data)) =>
       /\ appended \subseteq Range(added_lines)
       /\ appended \subseteq Range(discord)

---------------------------------------------------------------------------
(***************************************************************************)
(* headline_aggregator.HeadlineAggregator as an object: the constructor    *)
(* and the three methods, each run from start to end, and a single thread  *)
(* that calls them in any order while its clock advances.                  *)
(***************************************************************************)
MaxAggTime == 3    \* the clock of the calling thread stops here
MaxCalls == 5      \* method calls made on the object

AggLines == {<<"x">>, <<"y">>}

\* __init__(flush_interval)
AggNew(interval) ==
    [flush_interval |-> interval, buffer |-> <<>>, last_line_time |-> 0]

\* add_line(line) at time t
AddLine(a, line, t) ==
    [a EXCEPT !.buffer = Append(@, line), !.last_line_time = t]

\* flush() without self.buffer.clear()
FlushKeepsBuffer(a) == [combined |-> Join(a.buffer), agg |-> a]

\* flush(): the joined text, and the object afterwards
Flush(a) == [combined |-> Join(a.buffer), agg |-> [a EXCEPT !.buffer = <<>>]]

LogEntry(op, line, result, combined, before, after) ==
    [op |-> op, t |-> agg_now, line |-> line, result |-> result,
     combined |-> combined, before |-> before, after |-> after]

InitAgg ==
    /\ agg = AggNew(flush_interval)
    /\ agg_now = 0
    /\ agg_log = <<>>
    /\ twitter = <<>>
    /\ IdlePub /\ IdleFly /\ IdleNews /\ IdleTail /\ IdleBox /\ IdleUsage /\ IdleMisc

AggTick ==
    /\ agg_now < MaxAggTime
    /\ agg_now' = agg_now + 1
    /\ UNCHANGED <<agg, agg_log>>
    /\ UNCHANGED <<pubVars, twitter, flyVars, newsVars, tailVars, boxVars,
                   utVars, miscVars>>

AggAddLine ==
    /\ Len(agg_log) < MaxCalls
    /\ \E line \in AggLines :
          /\ agg' = AddLine(agg, line, agg_now)
          /\ agg_log' = Append(agg_log,
                LogEntry("add_line", line, FALSE, <<>>, agg, agg'))
    /\ UNCHANGED agg_now
    /\ UNCHANGED <<pubVars, twitter, flyVars, newsVars, tailVars, boxVars,
                   utVars, miscVars>>

AggShouldFlush ==
    /\ Len(agg_log) < MaxCalls
    /\ agg_log' = Append(agg_log,
          LogEntry("should_flush", <<>>,
                   ShouldFlush(agg.buffer, agg.last_line_time, agg_now,
                               agg.flush_interval),
                   <<>>, agg, agg))
    /\ UNCHANGED <<agg, agg_now>>
    /\ UNCHANGED <<pubVars, twitter, flyVars, newsVars, tailVars, boxVars,
                   utVars, miscVars>>

AggFlush ==
    /\ Len(agg_log) < MaxCalls
    /\ LET r == Flush(agg)
       IN /\ agg' = r.agg
          /\ agg_log' = Append(agg_log,
                LogEntry("flush", <<>>, FALSE, r.combined, agg, r.agg))
    /\ UNCHANGED agg_now
    /\ UNCHANGED <<pubVars, twitter, flyVars, newsVars, tailVars, boxVars,
                   utVars, miscVars>>

NextAgg ==
    \/ AggTick
    \/ AggAddLine
    \/ AggShouldFlush
    \/ AggFlush

SpecAgg == InitAgg /\ [][NextAgg]_vars

---------------------------------------------------------------------------
(***************************************************************************)
(* Claims checked under SpecAgg.                                           *)
(***************************************************************************)

\* The add_line calls before call i that no flush() before i followed.
PendingAdds(i) ==
    {j \in 1..(i - 1) :
        /\ agg_log[j].op = "add_line"
        /\ \A k \in (j + 1)..(i - 1) : agg_log[k].op # "flush"}

\* The add_line calls before call i.
AddsBefore(i) == {j \in 1..(i - 1) : agg_log[j].op = "add_line"}

Max(S) == CHOOSE x \in S : \A y \in S : y <= x

\* The elements of a set of numbers in increasing order.
RECURSIVE SortedSeq(_)
SortedSeq(S) ==
    IF S = {} THEN <<>>
    ELSE LET m == CHOOSE x \in S : \A y \in S : x <= y
         IN <<m>> \o SortedSeq(S \ {m})

\* C11: should_flush() returns true iff the buffer is non-empty (a line was
\* added since the last flush) and the time since the most recent add_line
\* is strictly greater than flush_interval; with adds at t = 0 and t = 2 and
\* flush_interval = 5 it is false at t = 4 and true at t = 8, and it is false
\* on an empty buffer, before any add and right after a flush.
C11_DebounceDecision ==
    /\ \A i \in 1..Len(agg_log) :
          agg_log[i].op = "should_flush" =>
             (agg_log[i].result <=>
                 /\ PendingAdds(i) # {}
                 /\ agg_log[i].t - agg_log[Max(AddsBefore(i))].t
                       > agg_log[i].before.flush_interval)
    /\ LET a == AddLine(AddLine(AggNew(5), <<"x">>, 0), <<"y">>, 2)
           f == Flush(a).agg
       IN /\ ~ShouldFlush(a.buffer, a.last_line_time, 4, a.flush_interval)
          /\ ShouldFlush(a.buffer, a.last_line_time, 8, a.flush_interval)
          /\ ~ShouldFlush(AggNew(5).buffer, AggNew(5).last_line_time, 8, 5)
          /\ ~ShouldFlush(f.buffer, f.last_line_time, 8, f.flush_interval)

\* should_flush() answered false exactly flush_interval after the last add
\* and true one second later.
C11_Witness ==
    \E i, j \in 1..Len(agg_log) :
        /\ i < j
        /\ agg_log[i].op = "should_flush" /\ ~agg_log[i].result
        /\ PendingAdds(i) # {}
        /\ agg_log[i].t - agg_log[Max(AddsBefore(i))].t
              = agg_log[i].before.flush_interval
        /\ agg_log[j].op = "should_flush" /\ agg_log[j].result

\* C12: called from one thread, flush() returns exactly the lines added
\* since the previous flush, joined by newline in the order of the adds, and
\* leaves the buffer empty and the other fields as they were; so no add is
\* in the payload of two flush() calls.
C12_FlushPayload ==
    /\ \A i \in 1..Len(agg_log) :
          agg_log[i].op = "flush" =>
             LET adds == SortedSeq(PendingAdds(i))
             IN /\ agg_log[i].combined =
                      Join([k \in 1..Len(adds) |-> agg_log[adds[k]].line])
                /\ agg_log[i].after.buffer = <<>>
                /\ agg_log[i].after.flush_interval
                      = agg_log[i].before.flush_interval
                /\ agg_log[i].after.last_line_time
                      = agg_log[i].before.last_line_time
    /\ LET a == AddLine(AddLine(AggNew(5), <<"x">>, 0), <<"y">>, 2)
       IN /\ Flush(a).combined = <<"x", LF, "y">>
          /\ Flush(a).agg.buffer = <<>>

\* Two flush() calls that each returned two lines.
C12_Witness ==
    \E i, j \in 1..Len(agg_log) :
        /\ i < j
        /\ agg_log[i].op = "flush" /\ agg_log[j].op = "flush"
        /\ Cardinality(PendingAdds(i)) >= 2
        /\ Cardinality(PendingAdds(j)) >= 1

---------------------------------------------------------------------------
(***************************************************************************)
(* usage_tracker.UsageTracker as an object: a thread that calls can_post() *)
(* and record_post() in any order while its clock advances, and the        *)
(* process being started again, which constructs a new tracker from the    *)
(* usage file.                                                             *)
(***************************************************************************)
MaxUtTime == 5     \* the clock of the calling thread stops here
MaxUtCalls == 3    \* calls made on the object, constructions included

UtEntry(op, result, after, file_after) ==
    [op |-> op, t |-> ut_now, result |-> result, before |-> ut_attempts,
     after |-> after, file_before |-> ut_file, file_after |-> file_after]

\* The tracker was constructed from a usage file that could be loaded.
InitUsage ==
    /\ ut_file \in {f \in UsageFiles : ~LoadUsage(f).raised}
    /\ ut_attempts = NewTracker(ut_file, 0).attempts
    /\ ut_now = 0
    /\ ut_log = <<>>
    /\ twitter = <<>>
    /\ IdlePub /\ IdleFly /\ IdleNews /\ IdleTail /\ IdleAgg /\ IdleBox
    /\ IdleMisc

UtTick ==
    /\ ut_now < MaxUtTime
    /\ ut_now' = ut_now + 1
    /\ UNCHANGED <<ut_attempts, ut_file, ut_log>>
    /\ UNCHANGED <<pubVars, twitter, flyVars, newsVars, tailVars, aggVars,
                   boxVars, miscVars>>

\* can_post()
UtCanPost ==
    /\ Len(ut_log) < MaxUtCalls
    /\ ut_attempts' = Prune(ut_attempts, ut_now, time_window)
    /\ ut_log' = Append(ut_log,
          UtEntry("can_post",
                  CanPost(ut_attempts, ut_now, max_attempts, time_window),
                  ut_attempts', ut_file))
    /\ UNCHANGED <<ut_file, ut_now>>
    /\ UNCHANGED <<pubVars, twitter, flyVars, newsVars, tailVars, aggVars,
                   boxVars, miscVars>>

\* record_post()
UtRecordPost ==
    /\ Len(ut_log) < MaxUtCalls
    /\ ut_attempts' = RecordPost(ut_attempts, ut_now)
    /\ ut_file' = SaveUsage(ut_attempts')
    /\ ut_log' = Append(ut_log,
          UtEntry("record_post", FALSE, ut_attempts', ut_file'))
    /\ UNCHANGED ut_now
    /\ UNCHANGED <<pubVars, twitter, flyVars, newsVars, tailVars, aggVars,
                   boxVars, miscVars>>

\* The process is started again: UsageTracker(usage_file=...) on the file
\* the earlier process left.
UtRestart ==
    /\ Len(ut_log) < MaxUtCalls
    /\ LET fresh == NewTracker(ut_file, ut_now)
       IN /\ ~fresh.raised
          /\ ut_attempts' = fresh.attempts
          /\ ut_log' = Append(ut_log,
                UtEntry("new", FALSE, fresh.attempts, ut_file))
    /\ UNCHANGED <<ut_file, ut_now>>
    /\ UNCHANGED <<pubVars, twitter, flyVars, newsVars, tailVars, aggVars,
                   boxVars, miscVars>>

NextUsage ==
    \/ UtTick
    \/ UtCanPost
    \/ UtRecordPost
    \/ UtRestart

SpecUsage == InitUsage /\ [][NextUsage]_vars

---------------------------------------------------------------------------
(***************************************************************************)
(* Claims checked under SpecUsage.                                         *)
(***************************************************************************)

\* C23: can_post() never adds a ledger entry and never changes the usage
\* file, its only effect being that expired entries leave the front of the
\* ledger; called again at the same time with nothing but can_post() calls
\* in between, it returns the same result and changes nothing.
C23_CanPostIdempotent ==
    /\ \A i \in 1..Len(ut_log) :
          ut_log[i].op = "can_post" =>
             LET e == ut_log[i]
                 removed == Len(e.before) - Len(e.after)
             IN /\ e.file_after = e.file_before
                /\ removed >= 0
                /\ e.after = SubSeq(e.before, removed + 1, Len(e.before))
                /\ \A k \in 1..removed : (e.t - e.before[k]) > time_window
    /\ \A i, j \in 1..Len(ut_log) :
          (/\ i < j
           /\ ut_log[i].t = ut_log[j].t
           /\ \A k \in i..j : ut_log[k].op = "can_post")
             => /\ ut_log[j].result = ut_log[i].result
                /\ ut_log[j].after = ut_log[j].before

\* can_post() removed expired entries and was called again at the same time.
C23_Witness ==
    \E i \in 1..(Len(ut_log) - 1) :
        /\ ut_log[i].op = "can_post"
        /\ ut_log[i + 1].op = "can_post"
        /\ ut_log[i].t = ut_log[i + 1].t
        /\ ut_log[i].before # ut_log[i].after
        /\ ut_log[i].after # <<>>

\* C24: at every moment a tracker newly constructed from the usage file
\* would hold the same attempts inside the window as the running tracker
\* and give the same can_post() answer, and every record_post() left the
\* file holding the whole ledger, the new timestamp last.
C24_SurvivesRestart ==
    /\ LET fresh == NewTracker(ut_file, ut_now)
           InWindow(e) == (ut_now - e) <= time_window
       IN /\ ~fresh.raised
          /\ SelectSeq(fresh.attempts, InWindow)
                = SelectSeq(ut_attempts, InWindow)
          /\ CanPost(fresh.attempts, ut_now, max_attempts, time_window)
                <=> CanPost(ut_attempts, ut_now, max_attempts, time_window)
    /\ \A i \in 1..Len(ut_log) :
          ut_log[i].op = "record_post" =>
             /\ ut_log[i].after = Append(ut_log[i].before, ut_log[i].t)
             /\ ut_log[i].file_after =
                   [state |-> "valid", data |-> ut_log[i].after]

\* Two attempts were recorded, one of them aged out, and the tracker
\* constructed from the file afterwards holds the other.
C24_Witness ==
    \E i, j \in 1..Len(ut_log) :
        /\ i < j
        /\ ut_log[i].op = "record_post"
        /\ ut_log[j].op = "new"
        /\ ut_log[j].before # ut_log[j].after
        /\ ut_log[j].after # <<>>
        /\ ut_log[j].t - ut_log[i].t > time_window

---------------------------------------------------------------------------
(***************************************************************************)
(* discord_mt.py: the handlers of !positions, !pnl and !beta, coroutines   *)
(* of one event loop.  A handler runs without interruption up to its       *)
(* `await ctx.send(...)`, where other handlers can run, and its finally    *)
(* block runs after that send.                                             *)
(***************************************************************************)
MaxInvocations == 3    \* commands the users send

Commands == {"positions", "pnl", "beta"}

\* The riskmgr function of a command starts with initialize_mt5():
\* get_open_positions_weight (line 69) and calculate_beta_vs_benchmark
\* (line 166) do, get_monthly_statistics (lines 97-160) does not.
InitializesFirst(cmd) == cmd \in {"positions", "beta"}

\* The MetaTrader5 functions a handler calls before its first await, in the
\* order of the code, when none of them fails (mt5.initialize, mt5.shutdown
\* and mt5.last_error are not listed).
MtCalls(cmd) ==
    CASE cmd = "positions" ->
            <<"positions_get", "account_info", "symbol_info", "positions_get">>
      [] cmd = "pnl" ->
            <<"account_info", "symbol_info">>
      [] OTHER ->
            <<"copy_rates_from_pos", "positions_get", "account_info",
              "symbol_info", "copy_rates_from_pos">>

InitMt ==
    /\ mt5_initialized = FALSE
    /\ sending = 0
    /\ mt5_log = <<>>
    /\ invoked = 0
    /\ twitter = <<>>
    /\ IdlePub /\ IdleFly /\ IdleNews /\ IdleTail /\ IdleAgg /\ IdleBox
    /\ IdleUsage /\ IdleAsm /\ IdleEnv

\* A command arrives and its handler runs up to `await ctx.send(...)`, in
\* the try block or in the except block.  init_ok is what mt5.initialize()
\* returns, http_ok whether the request of get_monthly_statistics gave
\* reporting data, n the place of the MetaTrader5 call whose result made
\* the code raise (or the last call).  On a connection that is not
\* initialized the first call returns None and the code raises on it.
BotInvoke ==
    /\ invoked < MaxInvocations
    /\ \E cmd \in Commands, init_ok \in BOOLEAN, http_ok \in BOOLEAN :
          LET calls == MtCalls(cmd)
              connected == IF InitializesFirst(cmd) THEN init_ok
                           ELSE mt5_initialized
              reached == IF InitializesFirst(cmd) THEN init_ok ELSE http_ok
          IN /\ InitializesFirst(cmd) => http_ok
             /\ ~InitializesFirst(cmd) => init_ok
             /\ \E n \in 1..Len(calls) :
                   LET made == IF ~reached THEN 0
                               ELSE IF ~connected THEN 1 ELSE n
                   IN /\ ~(reached /\ connected) => n = 1
                      /\ mt5_log' = mt5_log \o
                            [k \in 1..made |->
                                [cmd |-> cmd, fn |-> calls[k],
                                 initialized |-> connected]]
             /\ mt5_initialized' = connected
    /\ sending' = sending + 1
    /\ invoked' = invoked + 1
    /\ UNCHANGED <<pubVars, twitter, flyVars, newsVars, tailVars, aggVars,
                   boxVars, utVars, asmVars, envVars>>

\* The send of a suspended handler is over and its finally block runs:
\* mt5.shutdown() (lines 45-46, 56-57, 67-68).
BotFinally ==
    /\ sending > 0
    /\ sending' = sending - 1
    /\ mt5_initialized' = FALSE
    /\ UNCHANGED <<mt5_log, invoked>>
    /\ UNCHANGED <<pubVars, twitter, flyVars, newsVars, tailVars, aggVars,
                   boxVars, utVars, asmVars, envVars>>

NextMt ==
    \/ BotInvoke
    \/ BotFinally

SpecMt == InitMt /\ [][NextMt]_vars

---------------------------------------------------------------------------
(***************************************************************************)
(* Claims checked under SpecMt.                                            *)
(***************************************************************************)

\* C36: whatever the order of the !positions, !pnl and !beta commands, every
\* MetaTrader5 call a handler makes is made while the connection is
\* initialized.
C36_CallsWhileInitialized ==
    \A i \in 1..Len(mt5_log) : mt5_log[i].initialized

---------------------------------------------------------------------------
(***************************************************************************)
(* Newsfeeder.assemble_news_from_statics, called on the controls of a      *)
(* window as often as the poll loop asks for the text.                     *)
(***************************************************************************)
MaxControls == 4   \* controls of the window

\* A text that r'^\d{2}:\d{2}:\d{2}$' matches, "HH:MM:SS", as one character.
TS == "hh:mm:ss"

\* What window.descendants() can hold: Static controls with a time stamp,
\* with a headline, with no text and with a blank as text; a control of
\* another class; a control whose friendly_class_name() or window_text()
\* raises.
ControlKinds ==
    {[class |-> "Static", text |-> <<TS>>],
     [class |-> "Static", text |-> <<"h">>],
     [class |-> "Static", text |-> <<>>],
     [class |-> "Static", text |-> <<SPACE>>],
     [class |-> "Button", text |-> <<TS>>],
     [class |-> "raises", text |-> <<>>]}

ControlLists == UNION {[1..n -> ControlKinds] : n \in 0..MaxControls}

\* timestamp_pattern.match(text)
IsTimestamp(text) == text = <<TS>>

\* Lines 223-239: the place of the first control from j on that is a Static
\* with a text left after strip(), 0 when there is none.  A control whose
\* accessors raise counts as class "Unknown" with the text "".
RECURSIVE FindHeadline(_, _)
FindHeadline(cs, j) ==
    IF j > Len(cs) THEN 0
    ELSE IF cs[j].class = "Static" /\ Strip(cs[j].text) # <<>> THEN j
    ELSE FindHeadline(cs, j + 1)

\* The while loop of lines 207-246 from place i on; out is assembled_lines,
\* each line with the places of the controls it was made of.
RECURSIVE ScanStatics(_, _, _)
ScanStatics(cs, i, out) ==
    IF i > Len(cs) THEN out
    ELSE IF cs[i].class = "raises" THEN ScanStatics(cs, i + 1, out)
    ELSE LET text == Strip(cs[i].text)
             j == FindHeadline(cs, i + 1)
         IN IF cs[i].class = "Static" /\ IsTimestamp(text) /\ j # 0
            THEN ScanStatics(cs, j + 1,
                    Append(out, [ts |-> i, headline |-> j,
                                 line |-> text \o <<SPACE>>
                                             \o Strip(cs[j].text)]))
            ELSE ScanStatics(cs, i + 1, out)

\* Line 249: the assembled lines as one text.
assemble_news_from_statics(cs) ==
    LET out == ScanStatics(cs, 1, <<>>)
    IN Join([k \in 1..Len(out) |-> out[k].line])

InitAsm ==
    /\ controls \in ControlLists
    /\ assembled = <<>>
    /\ pcAsm = "ready"
    /\ twitter = <<>>
    /\ IdlePub /\ IdleFly /\ IdleNews /\ IdleTail /\ IdleAgg /\ IdleBox
    /\ IdleUsage /\ IdleMt /\ IdleEnv

\* One call of assemble_news_from_statics.
AsmCall ==
    /\ pcAsm = "ready"
    /\ assembled' = ScanStatics(controls, 1, <<>>)
    /\ pcAsm' = "done"
    /\ UNCHANGED controls
    /\ UNCHANGED <<pubVars, twitter, flyVars, newsVars, tailVars, aggVars,
                   boxVars, utVars, mtVars, envVars>>

\* Before the next poll the window gets a control or loses one.
AsmWindowChange ==
    /\ pcAsm = "done"
    /\ \/ /\ Len(controls) < MaxControls
          /\ \E p \in 0..Len(controls), c \in ControlKinds :
                controls' = SubSeq(controls, 1, p) \o <<c>>
                               \o SubSeq(controls, p + 1, Len(controls))
       \/ \E p \in 1..Len(controls) :
             controls' = SubSeq(controls, 1, p - 1)
                            \o SubSeq(controls, p + 1, Len(controls))
    /\ assembled' = <<>>
    /\ pcAsm' = "ready"
    /\ UNCHANGED <<pubVars, twitter, flyVars, newsVars, tailVars, aggVars,
                   boxVars, utVars, mtVars, envVars>>

NextAsm ==
    \/ AsmCall
    \/ AsmWindowChange

SpecAsm == InitAsm /\ [][NextAsm]_vars

---------------------------------------------------------------------------
(***************************************************************************)
(* Claims checked under SpecAsm.                                           *)
(***************************************************************************)

\* A Static control whose text is a time stamp.
IsTimestampStatic(c) == c.class = "Static" /\ IsTimestamp(Strip(c.text))

\* C37: assemble_news_from_statics pairs each Static control whose text is a
\* time stamp with the next later Static control that has a text: every
\* such control that is followed by one has its output line, made of these
\* two controls.
C37_EachTimestampPaired ==
    pcAsm = "done" =>
       \A i \in 1..Len(controls) :
          (IsTimestampStatic(controls[i]) /\ FindHeadline(controls, i + 1) # 0)
             => \E k \in 1..Len(assembled) :
                   /\ assembled[k].ts = i
                   /\ assembled[k].headline = FindHeadline(controls, i + 1)

---------------------------------------------------------------------------
(***************************************************************************)
(* rl_trading.main: the TradingEnv object, used first by model.learn and   *)
(* evaluate_policy (Step 4) and then by the simulation loop of Step 5.     *)
(***************************************************************************)
MaxRows == 5       \* rows of the dataframe

\* The test of line 113 with > in the place of >=.
EpisodeOverLate(step, n) == step > n

\* Line 113: if self.current_step >= len(self.df)
EpisodeOver(step, n) == step >= n

\* TradingEnv.step, lines 102-119: self.df.iloc[self.current_step] raises
\* IndexError when current_step is not a row; else current_step grows by
\* one and done is the test of line 113.
EnvStep(step, n) ==
    IF step >= n
    THEN [raised |-> TRUE, current_step |-> step, done |-> FALSE]
    ELSE [raised |-> FALSE, current_step |-> step + 1,
          done |-> EpisodeOver(step + 1, n)]

\* Line 121: env = TradingEnv(df, profit_mean, profit_std).
InitEnv ==
    /\ df_len \in 1..MaxRows
    /\ current_step = 0
    /\ done = FALSE
    /\ actions = <<>>
    /\ pcRl = "train"
    /\ twitter = <<>>
    /\ IdlePub /\ IdleFly /\ IdleNews /\ IdleTail /\ IdleAgg /\ IdleBox
    /\ IdleUsage /\ IdleMt /\ IdleAsm

\* Lines 127-129: a step() call made by model.learn or evaluate_policy,
\* which call reset() once a step returned done.
RlTrainStep ==
    /\ pcRl = "train"
    /\ ~done
    /\ LET r == EnvStep(current_step, df_len)
       IN /\ current_step' = r.current_step
          /\ done' = r.done
          /\ pcRl' = IF r.raised THEN "raised" ELSE "train"
    /\ UNCHANGED <<df_len, actions>>
    /\ UNCHANGED <<pubVars, twitter, flyVars, newsVars, tailVars, aggVars,
                   boxVars, utVars, mtVars, asmVars>>

\* Lines 127-129: a reset() call made by model.learn or evaluate_policy.
RlTrainReset ==
    /\ pcRl = "train"
    /\ current_step' = 0
    /\ done' = FALSE
    /\ UNCHANGED <<df_len, actions, pcRl>>
    /\ UNCHANGED <<pubVars, twitter, flyVars, newsVars, tailVars, aggVars,
                   boxVars, utVars, mtVars, asmVars>>

\* Lines 135-137: actions = [], obs = env.reset(), done = False.
RlSimReset ==
    /\ pcRl = "train"
    /\ actions' = <<>>
    /\ current_step' = 0
    /\ done' = FALSE
    /\ pcRl' = "loop"
    /\ UNCHANGED df_len
    /\ UNCHANGED <<pubVars, twitter, flyVars, newsVars, tailVars, aggVars,
                   boxVars, utVars, mtVars, asmVars>>

\* Lines 138-141: one pass of `while not done`.
RlSimStep ==
    /\ pcRl = "loop"
    /\ ~done
    /\ \E action \in {0, 1} : actions' = Append(actions, action)
    /\ LET r == EnvStep(current_step, df_len)
       IN /\ current_step' = r.current_step
          /\ done' = r.done
          /\ pcRl' = IF r.raised THEN "raised" ELSE "loop"
    /\ UNCHANGED df_len
    /\ UNCHANGED <<pubVars, twitter, flyVars, newsVars, tailVars, aggVars,
                   boxVars, utVars, mtVars, asmVars>>

\* Lines 143-144: df["action"] = actions, which raises ValueError unless
\* the list has one element per row.
RlSimSave ==
    /\ pcRl = "loop"
    /\ done
    /\ pcRl' = IF Len(actions) = df_len THEN "saved" ELSE "raised"
    /\ UNCHANGED <<df_len, current_step, done, actions>>
    /\ UNCHANGED <<pubVars, twitter, flyVars, newsVars, tailVars, aggVars,
                   boxVars, utVars, mtVars, asmVars>>

NextEnv ==
    \/ RlTrainStep
    \/ RlTrainReset
    \/ RlSimReset
    \/ RlSimStep
    \/ RlSimSave

SpecEnv == InitEnv /\ [][NextEnv]_vars

---------------------------------------------------------------------------
(***************************************************************************)
(* Claims checked under SpecEnv.                                           *)
(***************************************************************************)

\* C38: for a dataframe of N >= 1 rows current_step stays within 0..N;
\* current_step is the number of step() calls since the last reset(), and
\* the last call returned done exactly when that number is N, so the N-th
\* call is the first to return done; the loop of Step 5 has recorded one
\* action per call and exactly N when it stops, and no call raises.
C38_EpisodeLength ==
    /\ current_step \in 0..df_len
    /\ pcRl # "raised"
    /\ pcRl \in {"train", "loop"} => (done <=> current_step = df_len)
    /\ pcRl = "loop" => Len(actions) = current_step
    /\ pcRl = "saved" => Len(actions) = df_len

\* The loop of Step 5 ran to its end on a dataframe of MaxRows rows and
\* recorded actions of both kinds.
C38_Witness ==
    /\ pcRl = "saved"
    /\ df_len = MaxRows
    /\ Len(actions) = MaxRows
    /\ {0, 1} \subseteq Range(actions)

=============================================================================
